---- MODULE Spec2Model ----
(***************************************************************************)
(* Flow engine (src/src/flow.c) and configuration store (src/src/conf.c).  *)
(*                                                                         *)
(* Parts of the engine that flow.c calls but that live in other files of   *)
(* the repository (flow-hash, flow-util, flow-queue, flow-manager,         *)
(* util-byte, util-misc, the headers) are modelled from the specification. *)
(***************************************************************************)
EXTENDS Integers, Sequences, FiniteSets, TLC

(***************************************************************************)
(* Bounds of the model.                                                    *)
(***************************************************************************)
\* flow records the system allocator can hand out before malloc() fails
MaxFlows == 2
\* wall-clock seconds the clock can advance to
MaxTime == 2
\* packets the decoder delivers in a run
MaxPackets == 3
\* packet threads
Threads == {1, 2}

(***************************************************************************)
(* Program constants.                                                      *)
(***************************************************************************)
FLOW_DEFAULT_EMERGENCY_RECOVERY == 30
FLOW_DEFAULT_FLOW_PRUNE == 5
FLOW_DEFAULT_HASHSIZE == 65536
FLOW_DEFAULT_MEMCAP == 32 * 1024 * 1024
FLOW_DEFAULT_PREALLOC == 10000

\* sizeof(Flow), sizeof(FlowBucket): bytes accounted per record / per bucket
SizeofFlow == 2
SizeofFlowBucket == 1

\* RAND_MAX of rand_r()
RAND_MAX == 2147483647

IPPROTO_ICMP == 1
IPPROTO_TCP == 6
IPPROTO_UDP == 17
IPPROTO_GRE == 47
IPPROTO_ICMPV6 == 58
IPPROTO_SCTP == 132

TOSERVER == 0
TOCLIENT == 1

\* flow->flags bits, packet->flowflags bits, packet->flags bits, flow_flags bits
FLOW_TO_SRC_SEEN == "FLOW_TO_SRC_SEEN"
FLOW_TO_DST_SEEN == "FLOW_TO_DST_SEEN"
FLOW_TOSERVER_IPONLY_SET == "FLOW_TOSERVER_IPONLY_SET"
FLOW_TOCLIENT_IPONLY_SET == "FLOW_TOCLIENT_IPONLY_SET"
FLOW_NOPACKET_INSPECTION == "FLOW_NOPACKET_INSPECTION"
FLOW_NOPAYLOAD_INSPECTION == "FLOW_NOPAYLOAD_INSPECTION"
FLOW_PKT_TOSERVER == "FLOW_PKT_TOSERVER"
FLOW_PKT_TOCLIENT == "FLOW_PKT_TOCLIENT"
FLOW_PKT_ESTABLISHED == "FLOW_PKT_ESTABLISHED"
PKT_HAS_FLOW == "PKT_HAS_FLOW"
PKT_NOPACKET_INSPECTION == "PKT_NOPACKET_INSPECTION"
PKT_NOPAYLOAD_INSPECTION == "PKT_NOPAYLOAD_INSPECTION"
FLOW_EMERGENCY == "FLOW_EMERGENCY"

\* protocol slots of the timeout table
FLOW_PROTO_DEFAULT == "FLOW_PROTO_DEFAULT"
FLOW_PROTO_TCP == "FLOW_PROTO_TCP"
FLOW_PROTO_UDP == "FLOW_PROTO_UDP"
FLOW_PROTO_ICMP == "FLOW_PROTO_ICMP"
FlowProtoSlots == {FLOW_PROTO_DEFAULT, FLOW_PROTO_TCP, FLOW_PROTO_UDP, FLOW_PROTO_ICMP}

\* built-in timeouts (seconds)
FLOW_DEFAULT_NEW_TIMEOUT == 30
FLOW_DEFAULT_EST_TIMEOUT == 300
FLOW_DEFAULT_CLOSED_TIMEOUT == 0
FLOW_DEFAULT_EMERG_NEW_TIMEOUT == 10
FLOW_DEFAULT_EMERG_EST_TIMEOUT == 100
FLOW_DEFAULT_EMERG_CLOSED_TIMEOUT == 0
FLOW_IPPROTO_TCP_NEW_TIMEOUT == 30
FLOW_IPPROTO_TCP_EST_TIMEOUT == 300
FLOW_IPPROTO_TCP_EMERG_NEW_TIMEOUT == 10
FLOW_IPPROTO_TCP_EMERG_EST_TIMEOUT == 100
FLOW_IPPROTO_UDP_NEW_TIMEOUT == 30
FLOW_IPPROTO_UDP_EST_TIMEOUT == 300
FLOW_IPPROTO_UDP_EMERG_NEW_TIMEOUT == 10
FLOW_IPPROTO_UDP_EMERG_EST_TIMEOUT == 100
FLOW_IPPROTO_ICMP_NEW_TIMEOUT == 30
FLOW_IPPROTO_ICMP_EST_TIMEOUT == 300
FLOW_IPPROTO_ICMP_EMERG_NEW_TIMEOUT == 10
FLOW_IPPROTO_ICMP_EMERG_EST_TIMEOUT == 100

\* C pointers: NULL is the empty tuple, a pointer to x is <<x>>
NULL == <<>>
Deref(ptr) == ptr[1]

(***************************************************************************)
(* C strings are tuples of one-character strings.                          *)
(***************************************************************************)
DigitVal(c) ==
    CASE c = "0" -> 0 [] c = "1" -> 1 [] c = "2" -> 2 [] c = "3" -> 3
      [] c = "4" -> 4 [] c = "5" -> 5 [] c = "6" -> 6 [] c = "7" -> 7
      [] c = "8" -> 8 [] c = "9" -> 9
      [] c \in {"a", "A"} -> 10 [] c \in {"b", "B"} -> 11
      [] c \in {"c", "C"} -> 12 [] c \in {"d", "D"} -> 13
      [] c \in {"e", "E"} -> 14 [] c \in {"f", "F"} -> 15
      [] OTHER -> 99

IsDigit(c, base) == DigitVal(c) < base

\* index of the first character at or after i that is no digit of the base
RECURSIVE DigitsEnd(_, _, _)
DigitsEnd(s, i, base) ==
    IF i <= Len(s) /\ IsDigit(s[i], base) THEN DigitsEnd(s, i + 1, base) ELSE i

\* value of the digits s[i..j-1] in the base, continuing from acc
RECURSIVE DigitsVal(_, _, _, _, _)
DigitsVal(s, i, j, base, acc) ==
    IF i >= j THEN acc ELSE DigitsVal(s, i + 1, j, base, acc * base + DigitVal(s[i]))

RECURSIVE SkipSpace(_, _)
SkipSpace(s, i) == IF i <= Len(s) /\ s[i] = " " THEN SkipSpace(s, i + 1) ELSE i

\* strtoimax(s, &endptr, base) / strtoull(s, &endptr, base):
\* [val, end] with end the index endptr points at (1 = nothing was converted,
\* Len(s) + 1 = the terminating NUL).  StrToIntDigits: the digits from i in
\* base b, up to the first character that is none
StrToIntDigits(s, i, b, neg, j) ==
    IF j = i THEN [val |-> 0, end |-> 1]
    ELSE [val |-> IF neg THEN 0 - DigitsVal(s, i, j, b, 0) ELSE DigitsVal(s, i, j, b, 0),
          end |-> j]

\* the base: a 0x prefix followed by a hex digit, a leading 0, or decimal
StrToIntBase(s, base, i, neg) ==
    IF /\ base \in {0, 16}
       /\ i + 2 <= Len(s)
       /\ s[i] = "0" /\ s[i + 1] \in {"x", "X"}
       /\ IsDigit(s[i + 2], 16)
    THEN StrToIntDigits(s, i + 2, 16, neg, DigitsEnd(s, i + 2, 16))
    ELSE IF base # 0 THEN StrToIntDigits(s, i, base, neg, DigitsEnd(s, i, base))
    ELSE IF i <= Len(s) /\ s[i] = "0" THEN StrToIntDigits(s, i, 8, neg, DigitsEnd(s, i, 8))
    ELSE StrToIntDigits(s, i, 10, neg, DigitsEnd(s, i, 10))

\* the optional sign at i
StrToIntSign(s, base, i) ==
    IF i <= Len(s) /\ s[i] \in {"-", "+"}
    THEN StrToIntBase(s, base, i + 1, s[i] = "-")
    ELSE StrToIntBase(s, base, i, FALSE)

StrToInt(s, base) == StrToIntSign(s, base, SkipSpace(s, 1))

\* ByteExtractStringUint32(&res, 10, strlen(str), str): the number of bytes
\* converted (> 0) and the value, or -1 when nothing converts (a negative
\* number wraps to one that does not fit 32 bits and is refused; the strings
\* of the model are too short to overflow otherwise)
ByteExtractStringUint32(str) ==
    LET r == StrToInt(str, 10)
    IN IF r.end = 1 \/ r.val < 0
       THEN [ret |-> -1, val |-> 0]
       ELSE [ret |-> r.end - 1, val |-> r.val]

\* ParseSizeStringU64(str, &res): a number with an optional kb / mb / gb
\* suffix; 0 and the size in bytes, or -1
ParseSizeStringU64(str) ==
    LET r == StrToInt(str, 10)
        rest == IF r.end = 1 THEN str ELSE SubSeq(str, r.end, Len(str))
        mult == CASE rest = <<>> -> 1
                  [] rest \in {<<"k", "b">>, <<"K", "B">>} -> 1024
                  [] rest \in {<<"m", "b">>, <<"M", "B">>} -> 1024 * 1024
                  [] rest \in {<<"g", "b">>, <<"G", "B">>} -> 1024 * 1024 * 1024
                  [] OTHER -> 0
    IN IF r.end = 1 \/ r.val < 0 \/ mult = 0
       THEN [ret |-> -1, val |-> 0]
       ELSE [ret |-> 0, val |-> r.val * mult]

(***************************************************************************)
(* State.                                                                  *)
(***************************************************************************)
VARIABLES
    phase,          \* "uninit" | "running" | "shutdown" | "exit" | "crash"
    conf_hash,      \* conf.c: the configuration store, name -> ConfNode pointer
    flow_config,    \* FlowConfig flow_config
    flow_proto,     \* FlowProto flow_proto[FLOW_PROTO_MAX]
    flow_hash,      \* FlowBucket *flow_hash: bucket -> chain of flows, head first
    fb_m,           \* the bucket mutexes: bucket -> owning thread or 0
    flow_spare_q,   \* FlowQueue flow_spare_q, head first
    flows,          \* the heap of Flow records
    flow_memuse,    \* SC_ATOMIC flow_memuse
    flow_flags,     \* SC_ATOMIC flow_flags
    flow_prune_idx, \* SC_ATOMIC flow_prune_idx
    now,            \* wall clock, seconds
    npackets,       \* packets delivered to the packet threads so far
    pc,             \* packet thread -> where it is in FlowHandlePacket
    pkt,            \* packet thread -> the Packet it handles
    ref,            \* packet thread -> it holds a use_cnt reference on pkt.flow
    mgr,            \* the flow manager thread
    hist,           \* history of the run, read by the properties only
    call            \* a function of the program called on its own: arguments, results

cfgvars == <<conf_hash, flow_config, flow_proto>>
tablevars == <<flow_hash, fb_m, flow_spare_q, flows, flow_memuse, flow_flags, flow_prune_idx>>
threadvars == <<pc, pkt, ref, npackets>>
vars == <<phase, cfgvars, tablevars, now, threadvars, mgr, hist, call>>

FlowIds == 1 .. MaxFlows
NoFlow == 0
NoOwner == 0

(***************************************************************************)
(* conf.c                                                                  *)
(***************************************************************************)
ConfNames == {"flow.memcap", "flow.hash-size", "flow.prealloc",
              "flow.emergency-recovery", "flow.prune-flows", "flow-timeouts"}

\* ConfNodeNew() and the fields the callers fill in
ConfNode(name, val, allow_override, children) ==
    [name |-> name, val |-> val, allow_override |-> allow_override, head |-> children]

\* HashTableLookup(conf_hash, &lookup, ...): the node stored under the name
HashTableLookup(store, name) == IF name \in DOMAIN store THEN store[name] ELSE NULL

ConfGetNode(store, key) == HashTableLookup(store, key)

\* ConfGet(name, &vptr): [ret, vptr]
ConfGet(store, name) ==
    LET conf_node == HashTableLookup(store, name)
    IN IF conf_node = NULL
       THEN [ret |-> 0, vptr |-> NULL]
       ELSE [ret |-> 1, vptr |-> Deref(conf_node).val]

\* ConfGetInt(name, &val): [ret, val]
ConfGetInt(store, name) ==
    LET g == ConfGet(store, name)
        strval == Deref(g.vptr)
        r == StrToInt(strval, 0)
    IN IF g.ret = 0 THEN [ret |-> 0, val |-> 0]
       ELSE IF strval = <<>> \/ r.end # Len(strval) + 1 THEN [ret |-> 0, val |-> 0]
       ELSE [ret |-> 1, val |-> r.val]

\* ConfNodeLookupChild(node, name): the first child of that name, or NULL
ConfNodeLookupChild(node, name) ==
    LET idx == {i \in 1 .. Len(node.head) : node.head[i].name = name}
    IN IF idx = {} THEN NULL
       ELSE <<node.head[CHOOSE i \in idx : \A j \in idx : i <= j]>>

\* ConfNodeLookupChildValue(node, name): that child's value, or NULL
ConfNodeLookupChildValue(node, name) ==
    LET child == ConfNodeLookupChild(node, name)
    IN IF child = NULL THEN NULL ELSE Deref(child).val

(***************************************************************************)
(* The protocol timeout table.                                             *)
(***************************************************************************)
\* FlowGetProtoMapping(proto): the slot of the table a protocol number uses
FlowGetProtoMapping(proto) ==
    CASE proto = IPPROTO_TCP -> FLOW_PROTO_TCP
      [] proto = IPPROTO_UDP -> FLOW_PROTO_UDP
      [] proto = IPPROTO_ICMP -> FLOW_PROTO_ICMP
      [] OTHER -> FLOW_PROTO_DEFAULT

\* the table as the loader zeroes it, before FlowInitFlowProto() ran
FlowProtoZero ==
    [s \in FlowProtoSlots |->
        [new_timeout |-> 0, est_timeout |-> 0, closed_timeout |-> 0,
         emerg_new_timeout |-> 0, emerg_est_timeout |-> 0, emerg_closed_timeout |-> 0,
         Freefunc |-> NULL, GetProtoState |-> NULL]]

\* variant: the built-in timeouts are written, the two hooks are left as
\* they are
FlowProtoDefaultsKeepHooks ==
    [s \in FlowProtoSlots |->
        [flow_proto[s] EXCEPT
            !.new_timeout = CASE s = FLOW_PROTO_DEFAULT -> FLOW_DEFAULT_NEW_TIMEOUT
                              [] s = FLOW_PROTO_TCP -> FLOW_IPPROTO_TCP_NEW_TIMEOUT
                              [] s = FLOW_PROTO_UDP -> FLOW_IPPROTO_UDP_NEW_TIMEOUT
                              [] OTHER -> FLOW_IPPROTO_ICMP_NEW_TIMEOUT,
            !.est_timeout = CASE s = FLOW_PROTO_DEFAULT -> FLOW_DEFAULT_EST_TIMEOUT
                              [] s = FLOW_PROTO_TCP -> FLOW_IPPROTO_TCP_EST_TIMEOUT
                              [] s = FLOW_PROTO_UDP -> FLOW_IPPROTO_UDP_EST_TIMEOUT
                              [] OTHER -> FLOW_IPPROTO_ICMP_EST_TIMEOUT,
            !.closed_timeout = FLOW_DEFAULT_CLOSED_TIMEOUT,
            !.emerg_new_timeout =
                CASE s = FLOW_PROTO_DEFAULT -> FLOW_DEFAULT_EMERG_NEW_TIMEOUT
                  [] s = FLOW_PROTO_TCP -> FLOW_IPPROTO_TCP_EMERG_NEW_TIMEOUT
                  [] s = FLOW_PROTO_UDP -> FLOW_IPPROTO_UDP_EMERG_NEW_TIMEOUT
                  [] OTHER -> FLOW_IPPROTO_ICMP_EMERG_NEW_TIMEOUT,
            !.emerg_est_timeout =
                CASE s = FLOW_PROTO_DEFAULT -> FLOW_DEFAULT_EMERG_EST_TIMEOUT
                  [] s = FLOW_PROTO_TCP -> FLOW_IPPROTO_TCP_EMERG_EST_TIMEOUT
                  [] s = FLOW_PROTO_UDP -> FLOW_IPPROTO_UDP_EMERG_EST_TIMEOUT
                  [] OTHER -> FLOW_IPPROTO_ICMP_EMERG_EST_TIMEOUT,
            !.emerg_closed_timeout = FLOW_DEFAULT_EMERG_CLOSED_TIMEOUT]]

\* FlowInitFlowProto(), first half: the built-in values, both hooks NULL
FlowProtoDefaults ==
    [s \in FlowProtoSlots |->
        CASE s = FLOW_PROTO_DEFAULT ->
               [new_timeout |-> FLOW_DEFAULT_NEW_TIMEOUT,
                est_timeout |-> FLOW_DEFAULT_EST_TIMEOUT,
                closed_timeout |-> FLOW_DEFAULT_CLOSED_TIMEOUT,
                emerg_new_timeout |-> FLOW_DEFAULT_EMERG_NEW_TIMEOUT,
                emerg_est_timeout |-> FLOW_DEFAULT_EMERG_EST_TIMEOUT,
                emerg_closed_timeout |-> FLOW_DEFAULT_EMERG_CLOSED_TIMEOUT,
                Freefunc |-> NULL, GetProtoState |-> NULL]
          [] s = FLOW_PROTO_TCP ->
               [new_timeout |-> FLOW_IPPROTO_TCP_NEW_TIMEOUT,
                est_timeout |-> FLOW_IPPROTO_TCP_EST_TIMEOUT,
                closed_timeout |-> FLOW_DEFAULT_CLOSED_TIMEOUT,
                emerg_new_timeout |-> FLOW_IPPROTO_TCP_EMERG_NEW_TIMEOUT,
                emerg_est_timeout |-> FLOW_IPPROTO_TCP_EMERG_EST_TIMEOUT,
                emerg_closed_timeout |-> FLOW_DEFAULT_EMERG_CLOSED_TIMEOUT,
                Freefunc |-> NULL, GetProtoState |-> NULL]
          [] s = FLOW_PROTO_UDP ->
               [new_timeout |-> FLOW_IPPROTO_UDP_NEW_TIMEOUT,
                est_timeout |-> FLOW_IPPROTO_UDP_EST_TIMEOUT,
                closed_timeout |-> FLOW_DEFAULT_CLOSED_TIMEOUT,
                emerg_new_timeout |-> FLOW_IPPROTO_UDP_EMERG_NEW_TIMEOUT,
                emerg_est_timeout |-> FLOW_IPPROTO_UDP_EMERG_EST_TIMEOUT,
                emerg_closed_timeout |-> FLOW_DEFAULT_EMERG_CLOSED_TIMEOUT,
                Freefunc |-> NULL, GetProtoState |-> NULL]
          [] OTHER ->
               [new_timeout |-> FLOW_IPPROTO_ICMP_NEW_TIMEOUT,
                est_timeout |-> FLOW_IPPROTO_ICMP_EST_TIMEOUT,
                closed_timeout |-> FLOW_DEFAULT_CLOSED_TIMEOUT,
                emerg_new_timeout |-> FLOW_IPPROTO_ICMP_EMERG_NEW_TIMEOUT,
                emerg_est_timeout |-> FLOW_IPPROTO_ICMP_EMERG_EST_TIMEOUT,
                emerg_closed_timeout |-> FLOW_DEFAULT_EMERG_CLOSED_TIMEOUT,
                Freefunc |-> NULL, GetProtoState |-> NULL]]

\* the keys FlowInitFlowProto() reads under flow-timeouts.default and .tcp,
\* and the field each one is stored in
TimeoutKeysAll ==
    << <<"new", "new_timeout">>, <<"established", "est_timeout">>,
       <<"closed", "closed_timeout">>, <<"emergency-new", "emerg_new_timeout">>,
       <<"emergency-established", "emerg_est_timeout">>,
       <<"emergency-closed", "emerg_closed_timeout">> >>

\* the keys it reads under flow-timeouts.udp and .icmp
TimeoutKeysNoClosed ==
    << <<"new", "new_timeout">>, <<"established", "est_timeout">>,
       <<"emergency-new", "emerg_new_timeout">>,
       <<"emergency-established", "emerg_est_timeout">> >>

\* variant: a configured timeout is never stored
FlowProtoConfigFieldNever(tbl, slot, proto, key) == tbl

\* one "if (x != NULL && ByteExtractStringUint32(&configval, ...) > 0)
\*          flow_proto[slot].field = configval;"
FlowProtoConfigField(tbl, slot, proto, key) ==
    LET v == ConfNodeLookupChildValue(proto, key[1])
        r == ByteExtractStringUint32(Deref(v))
    IN IF v # NULL /\ r.ret > 0
       THEN [tbl EXCEPT ![slot] = [@ EXCEPT ![key[2]] = r.val]]
       ELSE tbl

RECURSIVE FlowProtoConfigFields(_, _, _, _, _)
FlowProtoConfigFields(tbl, slot, proto, keys, i) ==
    IF i > Len(keys) THEN tbl
    ELSE FlowProtoConfigFields(FlowProtoConfigField(tbl, slot, proto, keys[i]),
                               slot, proto, keys, i + 1)

\* one "proto = ConfNodeLookupChild(flow_timeouts, name); if (proto != NULL) {...}"
FlowProtoConfigSlot(tbl, flow_timeouts, name, slot, keys) ==
    LET proto == ConfNodeLookupChild(flow_timeouts, name)
    IN IF proto = NULL THEN tbl
       ELSE FlowProtoConfigFields(tbl, slot, Deref(proto), keys, 1)

\* FlowInitFlowProto(): the table it leaves, for the store it reads
FlowInitFlowProto(store) ==
    LET flow_timeouts == ConfGetNode(store, "flow-timeouts")
        t0 == FlowProtoDefaults
        t1 == FlowProtoConfigSlot(t0, Deref(flow_timeouts), "default",
                                  FLOW_PROTO_DEFAULT, TimeoutKeysAll)
        t2 == FlowProtoConfigSlot(t1, Deref(flow_timeouts), "tcp",
                                  FLOW_PROTO_TCP, TimeoutKeysAll)
        t3 == FlowProtoConfigSlot(t2, Deref(flow_timeouts), "udp",
                                  FLOW_PROTO_UDP, TimeoutKeysNoClosed)
        t4 == FlowProtoConfigSlot(t3, Deref(flow_timeouts), "icmp",
                                  FLOW_PROTO_ICMP, TimeoutKeysNoClosed)
    IN IF flow_timeouts = NULL THEN t0 ELSE t4

(***************************************************************************)
(* Flow records, the allocator and the spare queue.                        *)
(***************************************************************************)
\* a record as FLOW_INITIALIZE / FLOW_RECYCLE leave it
BlankFlow ==
    [alloc |-> FALSE, src |-> 0, dst |-> 0, sp |-> 0, dp |-> 0, proto |-> 0,
     lastts_sec |-> 0, flags |-> {}, use_cnt |-> 0, protoctx |-> FALSE,
     m |-> NoOwner]

\* FLOW_CHECK_MEMCAP(size)
FLOW_CHECK_MEMCAP(memuse, size, memcap) == memuse + size <= memcap

\* the record malloc() returns: NoFlow when the allocator has none left
Malloc(fl) ==
    IF \E f \in FlowIds : ~fl[f].alloc
    THEN CHOOSE f \in FlowIds : ~fl[f].alloc /\ \A g \in FlowIds : ~fl[g].alloc => f <= g
    ELSE NoFlow

\* FlowAlloc() on heap h = [flows, memuse, flags]: the memcap check and the
\* increment are one atomic step; over the cap the EMERGENCY flag is raised
FlowAlloc(h, memcap) ==
    IF ~FLOW_CHECK_MEMCAP(h.memuse, SizeofFlow, memcap)
    THEN [f |-> NoFlow, flows |-> h.flows, memuse |-> h.memuse,
          flags |-> h.flags \cup {FLOW_EMERGENCY}]
    ELSE LET f == Malloc(h.flows)
         IN IF f = NoFlow
            THEN [f |-> NoFlow, flows |-> h.flows, memuse |-> h.memuse, flags |-> h.flags]
            ELSE [f |-> f, flows |-> [h.flows EXCEPT ![f] = [BlankFlow EXCEPT !.alloc = TRUE]],
                  memuse |-> h.memuse + SizeofFlow, flags |-> h.flags]

\* FlowFree(f): the record goes back to the allocator, its bytes are subtracted
FlowFree(fl, f) == [fl EXCEPT ![f] = BlankFlow]

\* FlowEnqueue(q, f): push at the tail;  FlowDequeue(q): pop from the head
FlowEnqueue(q, f) == Append(q, f)
FlowDequeueFlow(q) == IF q = <<>> THEN NoFlow ELSE Head(q)
FlowDequeueRest(q) == IF q = <<>> THEN q ELSE Tail(q)

(***************************************************************************)
(* FlowInitConfig                                                          *)
(***************************************************************************)
\* the zeroed globals before FlowInitConfig() ran
ZeroConfig ==
    [hash_rand |-> 0, hash_size |-> 0, memcap |-> 0, prealloc |-> 0,
     emergency_recovery |-> 0, flow_try_release |-> 0]

MgrIdle ==
    [pc |-> "idle", idx |-> 0, left |-> 0, collected |-> <<>>,
     released |-> 0, noevict |-> 0, todo |-> 0, fq |-> FALSE]

NoPacket ==
    [src |-> 0, dst |-> 0, sp |-> 0, dp |-> 0, proto |-> 0, icmp_err |-> FALSE,
     ts |-> 0, flow |-> NoFlow, flowflags |-> {}, flags |-> {}]

\* no function is called on its own
NoCall == [op |-> "none"]

\* hook: the calls of cleanup hooks made by the last recycling or shutdown
HistInit ==
    [exhausted |-> FALSE, released |-> 0, noevict |-> 0, hook |-> <<>>]

\* variant: the range of flow.emergency-recovery is not checked
ConfigEmergencyRecoveryNoRange(store) ==
    LET g == ConfGetInt(store, "flow.emergency-recovery")
    IN IF g.ret = 1 THEN g.val % 256 ELSE FLOW_DEFAULT_EMERGENCY_RECOVERY

\* "flow.emergency-recovery": lines 341-352
ConfigEmergencyRecovery(store) ==
    LET g == ConfGetInt(store, "flow.emergency-recovery")
    IN IF g.ret = 1
       THEN IF g.val <= 100 /\ g.val >= 1
            THEN g.val % 256
            ELSE FLOW_DEFAULT_EMERGENCY_RECOVERY
       ELSE FLOW_DEFAULT_EMERGENCY_RECOVERY

\* variant: no default when flow.prune-flows holds no integer
ConfigFlowTryReleaseNoDefault(store) ==
    LET g == ConfGetInt(store, "flow.prune-flows")
    IN IF g.ret = 1 THEN g.val % 256
       ELSE IF ConfGet(store, "flow.prune-flows").ret = 1 THEN 0
       ELSE FLOW_DEFAULT_FLOW_PRUNE

\* "flow.prune-flows": lines 354-359, the value is cast to uint8_t
ConfigFlowTryRelease(store) ==
    LET g == ConfGetInt(store, "flow.prune-flows")
    IN IF g.ret = 1 THEN g.val % 256 ELSE FLOW_DEFAULT_FLOW_PRUNE

\* "flow.memcap": lines 366-374; ok = FALSE is the exit(EXIT_FAILURE)
ConfigMemcap(store) ==
    LET g == ConfGet(store, "flow.memcap")
        r == ParseSizeStringU64(Deref(g.vptr))
    IN IF g.ret = 1
       THEN IF r.ret < 0 THEN [ok |-> FALSE, val |-> FLOW_DEFAULT_MEMCAP]
            ELSE [ok |-> TRUE, val |-> r.val]
       ELSE [ok |-> TRUE, val |-> FLOW_DEFAULT_MEMCAP]

\* "flow.hash-size" and "flow.prealloc": lines 375-388
ConfigUint32(store, name, default) ==
    LET g == ConfGet(store, name)
        r == ByteExtractStringUint32(Deref(g.vptr))
    IN IF g.ret = 1 /\ r.ret > 0 THEN r.val ELSE default

\* lines 414-431: preallocate, on heap h = [flows, memuse, flags, spare, ok];
\* ok = FALSE is one of the two exit(EXIT_FAILURE)
RECURSIVE FlowInitPrealloc(_, _, _, _)
FlowInitPrealloc(h, i, prealloc, memcap) ==
    IF i >= prealloc THEN h
    ELSE IF ~FLOW_CHECK_MEMCAP(h.memuse, SizeofFlow, memcap)
         THEN [h EXCEPT !.ok = FALSE]
         ELSE LET a == FlowAlloc(h, memcap)
              IN IF a.f = NoFlow
                 THEN [h EXCEPT !.ok = FALSE]
                 ELSE FlowInitPrealloc(
                          [flows |-> a.flows, memuse |-> a.memuse, flags |-> a.flags,
                           spare |-> FlowEnqueue(h.spare, a.f), ok |-> TRUE],
                          i + 1, prealloc, memcap)

\* line 405: the bucket array is added to flow_memuse
FlowInitHashMemuse(hash_size) == hash_size * SizeofFlowBucket

\* lines 331-388: flow_config as the configuration store decides it; r is
\* what rand_r() returns
FlowConfigRead(store, r) ==
    [hash_rand |-> FLOW_DEFAULT_HASHSIZE * ((r \div RAND_MAX) + 1),
     hash_size |-> ConfigUint32(store, "flow.hash-size", FLOW_DEFAULT_HASHSIZE),
     memcap |-> ConfigMemcap(store).val,
     prealloc |-> ConfigUint32(store, "flow.prealloc", FLOW_DEFAULT_PREALLOC),
     emergency_recovery |-> ConfigEmergencyRecovery(store),
     flow_try_release |-> ConfigFlowTryRelease(store)]

\* lines 394-431: the heap, flow_memuse and the spare queue FlowInitConfig()
\* builds for flow_config = cfg
FlowInitTable(cfg) ==
    FlowInitPrealloc([flows |-> [f \in FlowIds |-> BlankFlow],
                      memuse |-> FlowInitHashMemuse(cfg.hash_size),
                      flags |-> {}, spare |-> <<>>, ok |-> TRUE],
                     0, cfg.prealloc, cfg.memcap)

\* FlowInitConfig(quiet) with flow_config = cfg and the table h; ok = FALSE
\* when flow.memcap does not parse or SCCalloc() of the bucket array fails
FlowInitConfigRun(cfg, h, ok) ==
    IF ~ok \/ ~h.ok
    THEN /\ phase' = "exit"
         /\ UNCHANGED <<cfgvars, tablevars>>
    ELSE /\ phase' = "running"
         /\ flow_config' = cfg
         /\ flow_hash' = [b \in 0 .. cfg.hash_size - 1 |-> <<>>]
         /\ fb_m' = [b \in 0 .. cfg.hash_size - 1 |-> NoOwner]
         /\ flow_spare_q' = h.spare
         /\ flows' = h.flows
         /\ flow_memuse' = h.memuse
         /\ flow_flags' = h.flags
         /\ flow_prune_idx' = 0
         /\ flow_proto' = FlowInitFlowProto(conf_hash)
         /\ UNCHANGED conf_hash

\* FlowInitConfig(quiet). r is what rand_r() returns, calloc_ok whether
\* SCCalloc() of the bucket array succeeds.
FlowInitConfig(r, calloc_ok) ==
    /\ phase = "uninit"
    /\ FlowInitConfigRun(FlowConfigRead(conf_hash, r),
                         FlowInitTable(FlowConfigRead(conf_hash, r)),
                         ConfigMemcap(conf_hash).ok /\ calloc_ok)
    /\ UNCHANGED <<now, threadvars, mgr, hist, call>>

(***************************************************************************)
(* The configurations the engine is started with.                          *)
(***************************************************************************)
Leaf(name, val) == ConfNode(name, <<val>>, 1, <<>>)

\* flow-timeouts.<proto>: new / established and their emergency values
TimeoutNode(proto, new, est, enew, eest) ==
    ConfNode(proto, NULL, 1,
             << Leaf("new", new), Leaf("established", est),
                Leaf("emergency-new", enew), Leaf("emergency-established", eest) >>)

ShortTimeouts ==
    ConfNode("flow-timeouts", NULL, 1,
             << TimeoutNode("default", <<"2">>, <<"2">>, <<"1">>, <<"1">>),
                TimeoutNode("tcp", <<"2">>, <<"2">>, <<"1">>, <<"1">>),
                TimeoutNode("udp", <<"2">>, <<"2">>, <<"1">>, <<"1">>),
                TimeoutNode("icmp", <<"2">>, <<"2">>, <<"1">>, <<"1">>) >>)

\* a store holding the five flow.* keys and the flow-timeouts tree
FlowConf(hash_size, memcap, prealloc, recovery, prune) ==
    [n \in ConfNames |->
        CASE n = "flow.hash-size" -> <<Leaf(n, hash_size)>>
          [] n = "flow.memcap" -> <<Leaf(n, memcap)>>
          [] n = "flow.prealloc" -> <<Leaf(n, prealloc)>>
          [] n = "flow.emergency-recovery" -> <<Leaf(n, recovery)>>
          [] n = "flow.prune-flows" -> <<Leaf(n, prune)>>
          [] OTHER -> <<ShortTimeouts>>]

\* two buckets under a cap smaller than the bucket array; one bucket and room
\* for more flows than the allocator has; two buckets and room for one flow;
\* one bucket and room for one flow, which is preallocated
EngineConfs ==
    { FlowConf(<<"2">>, <<"1">>, <<"0">>, <<"5", "0">>, <<"1">>),
      FlowConf(<<"1">>, <<"7">>, <<"0">>, <<"1", "0", "0">>, <<"1">>),
      FlowConf(<<"2">>, <<"4">>, <<"0">>, <<"1", "0", "0">>, <<"1">>),
      FlowConf(<<"1">>, <<"3">>, <<"1">>, <<"1", "0", "0">>, <<"1">>) }

\* everything but the configuration store, before FlowInitConfig
InitGlobals ==
    /\ phase = "uninit"
    /\ flow_config = ZeroConfig
    /\ flow_proto = FlowProtoZero
    /\ flow_hash = [b \in 0 .. -1 |-> <<>>]
    /\ fb_m = [b \in 0 .. -1 |-> NoOwner]
    /\ flow_spare_q = <<>>
    /\ flows = [f \in FlowIds |-> BlankFlow]
    /\ flow_memuse = 0
    /\ flow_flags = {}
    /\ flow_prune_idx = 0
    /\ now = 0
    /\ pc = [t \in Threads |-> "idle"]
    /\ pkt = [t \in Threads |-> NoPacket]
    /\ ref = [t \in Threads |-> FALSE]
    /\ npackets = 0
    /\ mgr = MgrIdle

InitEngine ==
    /\ InitGlobals
    /\ conf_hash \in EngineConfs
    /\ hist = HistInit

Init == InitEngine /\ call = NoCall

(***************************************************************************)
(* Packets and the flow hash.                                              *)
(***************************************************************************)
Packet(src, dst, sp, dp, proto, icmp_err) ==
    [NoPacket EXCEPT !.src = src, !.dst = dst, !.sp = sp, !.dp = dp,
                     !.proto = proto, !.icmp_err = icmp_err]

\* the packets the decoder delivers to the packet threads: a TCP conversation
\* in both directions and a UDP datagram whose two endpoints are the same
EnginePackets ==
    { Packet(1, 2, 1, 2, IPPROTO_TCP, FALSE), Packet(2, 1, 2, 1, IPPROTO_TCP, FALSE),
      Packet(1, 1, 1, 1, IPPROTO_UDP, FALSE) }

\* FlowGetKey(p): the bucket of a packet, the same for both directions
FlowGetKey(p, cfg) ==
    (p.src + p.dst + p.sp + p.dp + p.proto + cfg.hash_rand) % cfg.hash_size

\* variant: a comparison that knows the creating direction only
FlowCompareOneWay(f, p) ==
    /\ f.proto = p.proto
    /\ f.src = p.src /\ f.dst = p.dst /\ f.sp = p.sp /\ f.dp = p.dp

\* CMP_FLOW(f, p): the packet belongs to the flow, in either direction
FlowCompare(f, p) ==
    /\ f.proto = p.proto
    /\ \/ f.src = p.src /\ f.dst = p.dst /\ f.sp = p.sp /\ f.dp = p.dp
       \/ f.src = p.dst /\ f.dst = p.src /\ f.sp = p.dp /\ f.dp = p.sp

\* the head-most flow of a chain the packet belongs to, or NoFlow
RECURSIVE FlowLookup(_, _, _)
FlowLookup(chain, fl, p) ==
    IF chain = <<>> THEN NoFlow
    ELSE IF FlowCompare(fl[Head(chain)], p) THEN Head(chain)
    ELSE FlowLookup(Tail(chain), fl, p)

\* FlowInit(f, p): the key of a new flow is the creating packet's
FlowInit(f, p) ==
    [f EXCEPT !.src = p.src, !.dst = p.dst, !.sp = p.sp, !.dp = p.dp, !.proto = p.proto]

(***************************************************************************)
(* FlowHandlePacket and what it calls.                                     *)
(***************************************************************************)
CMP_PORT(a, b) == a = b
CMP_ADDR(a, b) == a = b

\* variant: the ports are compared also when the packet's two ports are equal
FlowGetPacketDirectionPortsOnly(f, p) ==
    IF p.proto = IPPROTO_TCP \/ p.proto = IPPROTO_UDP \/ p.proto = IPPROTO_SCTP
    THEN IF CMP_PORT(f.sp, p.sp) THEN TOSERVER ELSE TOCLIENT
    ELSE IF p.proto = IPPROTO_ICMP \/ p.proto = IPPROTO_ICMPV6
         THEN IF CMP_ADDR(f.src, p.src) THEN TOSERVER ELSE TOCLIENT
         ELSE TOSERVER

\* variant: the addresses are compared for every protocol without ports
FlowGetPacketDirectionAddrDefault(f, p) ==
    IF p.proto = IPPROTO_TCP \/ p.proto = IPPROTO_UDP \/ p.proto = IPPROTO_SCTP
    THEN IF ~CMP_PORT(p.sp, p.dp)
         THEN IF CMP_PORT(f.sp, p.sp) THEN TOSERVER ELSE TOCLIENT
         ELSE IF CMP_ADDR(f.src, p.src) THEN TOSERVER ELSE TOCLIENT
    ELSE IF CMP_ADDR(f.src, p.src) THEN TOSERVER ELSE TOCLIENT

\* FlowGetPacketDirection(f, p)
FlowGetPacketDirection(f, p) ==
    IF p.proto = IPPROTO_TCP \/ p.proto = IPPROTO_UDP \/ p.proto = IPPROTO_SCTP
    THEN IF ~CMP_PORT(p.sp, p.dp)
         THEN IF CMP_PORT(f.sp, p.sp) THEN TOSERVER ELSE TOCLIENT
         ELSE IF CMP_ADDR(f.src, p.src) THEN TOSERVER ELSE TOCLIENT
    ELSE IF p.proto = IPPROTO_ICMP \/ p.proto = IPPROTO_ICMPV6
         THEN IF CMP_ADDR(f.src, p.src) THEN TOSERVER ELSE TOCLIENT
         ELSE TOSERVER

\* variant: every packet advances the seen flags
FlowUpdateSeenFlagAlways(p) == 1

\* FlowUpdateSeenFlag(p)
FlowUpdateSeenFlag(p) ==
    IF p.proto = IPPROTO_ICMP /\ p.icmp_err THEN 0 ELSE 1

\* variant: the last seen timestamp is left alone
FlowHandlePacketFlowNoTs(f, p) ==
    LET seen == IF FlowGetPacketDirection(f, p) = TOSERVER
                THEN FLOW_TO_DST_SEEN ELSE FLOW_TO_SRC_SEEN
    IN [f EXCEPT !.flags = IF FlowUpdateSeenFlag(p) = 1 THEN @ \cup {seen} ELSE @,
                 !.m = NoOwner]

\* FlowHandlePacket, lines 271-311: the flow as the packet leaves it
FlowHandlePacketFlow(f, p) ==
    LET seen == IF FlowGetPacketDirection(f, p) = TOSERVER
                THEN FLOW_TO_DST_SEEN ELSE FLOW_TO_SRC_SEEN
    IN [f EXCEPT !.lastts_sec = p.ts,
                 !.flags = IF FlowUpdateSeenFlag(p) = 1 THEN @ \cup {seen} ELSE @,
                 !.m = NoOwner]

\* variant: one seen flag is enough for the ESTABLISHED mark
FlowHandlePacketPktEstAny(f, fid, p) ==
    LET dir == IF FlowGetPacketDirection(f, p) = TOSERVER
               THEN {FLOW_PKT_TOSERVER} ELSE {FLOW_PKT_TOCLIENT}
        est == IF FLOW_TO_DST_SEEN \in f.flags \/ FLOW_TO_SRC_SEEN \in f.flags
               THEN {FLOW_PKT_ESTABLISHED} ELSE {}
    IN [p EXCEPT !.flowflags = @ \cup dir \cup est,
                 !.flow = fid,
                 !.flags = @ \cup {PKT_HAS_FLOW}]

\* variant: the packet gets both direction marks
FlowHandlePacketPktBothMarks(f, fid, p) ==
    [p EXCEPT !.flowflags = @ \cup {FLOW_PKT_TOSERVER, FLOW_PKT_TOCLIENT},
              !.flow = fid,
              !.flags = @ \cup {PKT_HAS_FLOW}]

\* FlowHandlePacket, lines 275-316: the packet as it leaves with flow fid,
\* whose record (flags updated) is f
FlowHandlePacketPkt(f, fid, p) ==
    LET dir == IF FlowGetPacketDirection(f, p) = TOSERVER
               THEN {FLOW_PKT_TOSERVER} ELSE {FLOW_PKT_TOCLIENT}
        est == IF FLOW_TO_DST_SEEN \in f.flags /\ FLOW_TO_SRC_SEEN \in f.flags
               THEN {FLOW_PKT_ESTABLISHED} ELSE {}
        nopkt == IF FLOW_NOPACKET_INSPECTION \in f.flags
                 THEN {PKT_NOPACKET_INSPECTION} ELSE {}
        nopay == IF FLOW_NOPAYLOAD_INSPECTION \in f.flags
                 THEN {PKT_NOPAYLOAD_INSPECTION} ELSE {}
    IN [p EXCEPT !.flowflags = @ \cup dir \cup est,
                 !.flow = fid,
                 !.flags = @ \cup nopkt \cup nopay \cup {PKT_HAS_FLOW}]

\* variant: the packet is marked although no flow came back
FlowHandlePacketNoFlowMarked(p) == [p EXCEPT !.flags = @ \cup {PKT_HAS_FLOW}]

\* FlowHandlePacket, lines 267-269: FlowGetFlowFromHash() returned NULL
FlowHandlePacketNoFlow(p) == p

\* the flow a thread holds locked
LockedBy(t) == CHOOSE f \in FlowIds : flows[f].m = t

\* FlowGetFlowFromHash(p), first step: the thread takes the packet, computes
\* its bucket and acquires the bucket mutex
FlowGetFlowFromHash_Lock(t, p) ==
    /\ phase = "running" /\ flow_config.hash_size > 0
    /\ pc[t] = "idle"
    /\ npackets < MaxPackets
    /\ npackets' = npackets + 1
    /\ LET key == FlowGetKey(p, flow_config)
       IN /\ fb_m[key] = NoOwner
          /\ fb_m' = [fb_m EXCEPT ![key] = t]
    /\ pkt' = [pkt EXCEPT ![t] = [p EXCEPT !.ts = now]]
    /\ pc' = [pc EXCEPT ![t] = "bucket"]
    /\ UNCHANGED <<call, phase, cfgvars, flow_hash, flow_spare_q, flows, flow_memuse,
                   flow_flags, flow_prune_idx, now, ref, mgr, hist>>

\* variant: the lookup returns the flow locked with the bucket still locked
FlowGetFlowFromHash_HitKeepsBucket(t) ==
    /\ phase = "running"
    /\ pc[t] = "bucket"
    /\ LET key == FlowGetKey(pkt[t], flow_config)
           f == FlowLookup(flow_hash[key], flows, pkt[t])
       IN /\ f # NoFlow
          /\ flows[f].m = NoOwner
          /\ flows' = [flows EXCEPT ![f].m = t]
          /\ fb_m' = fb_m
    /\ pc' = [pc EXCEPT ![t] = "locked"]
    /\ UNCHANGED <<call, phase, cfgvars, flow_hash, flow_spare_q, flow_memuse,
                   flow_flags, flow_prune_idx, now, npackets, pkt, ref, mgr, hist>>

\* FlowGetFlowFromHash(p), a flow of the chain matches: lock it, release the
\* bucket, return it locked
FlowGetFlowFromHash_Hit(t) ==
    /\ phase = "running"
    /\ pc[t] = "bucket"
    /\ LET key == FlowGetKey(pkt[t], flow_config)
           f == FlowLookup(flow_hash[key], flows, pkt[t])
       IN /\ f # NoFlow
          /\ flows[f].m = NoOwner
          /\ flows' = [flows EXCEPT ![f].m = t]
          /\ fb_m' = [fb_m EXCEPT ![key] = NoOwner]
    /\ pc' = [pc EXCEPT ![t] = "locked"]
    /\ UNCHANGED <<call, phase, cfgvars, flow_hash, flow_spare_q, flow_memuse,
                   flow_flags, flow_prune_idx, now, npackets, pkt, ref, mgr, hist>>

\* FlowGetNew(p) on heap [flows, memuse, flags] and the spare queue: a spare
\* flow if there is one, a fresh allocation under the memcap otherwise
FlowGetNew(h, spare, memcap) ==
    IF spare # <<>>
    THEN [f |-> FlowDequeueFlow(spare), flows |-> h.flows, memuse |-> h.memuse,
          flags |-> h.flags, spare |-> FlowDequeueRest(spare)]
    ELSE LET a == FlowAlloc(h, memcap)
         IN [f |-> a.f, flows |-> a.flows, memuse |-> a.memuse,
             flags |-> a.flags, spare |-> spare]

\* history: a call of the allocator; it observes memcap exhaustion when the
\* check fails, and the count of released flows restarts when that is new
HistAlloc(called) ==
    IF called /\ ~FLOW_CHECK_MEMCAP(flow_memuse, SizeofFlow, flow_config.memcap)
    THEN [hist EXCEPT !.exhausted = TRUE,
                      !.released = IF hist.exhausted THEN @ ELSE 0,
                      !.noevict = IF hist.exhausted THEN @ ELSE 0]
    ELSE hist

\* FlowGetFlowFromHash(p), no flow of the chain matches. With a record: set
\* its key, push it at the head of the chain, lock it, release the bucket.
\* Without one: release the bucket, return NULL, and FlowHandlePacket returns.
FlowGetFlowFromHash_Miss(t) ==
    /\ phase = "running"
    /\ pc[t] = "bucket"
    /\ ~mgr.fq
    /\ LET key == FlowGetKey(pkt[t], flow_config)
           g == FlowGetNew([flows |-> flows, memuse |-> flow_memuse, flags |-> flow_flags],
                           flow_spare_q, flow_config.memcap)
       IN /\ FlowLookup(flow_hash[key], flows, pkt[t]) = NoFlow
          /\ flow_spare_q' = g.spare
          /\ flow_memuse' = g.memuse
          /\ flow_flags' = g.flags
          /\ fb_m' = [fb_m EXCEPT ![key] = NoOwner]
          /\ hist' = HistAlloc(flow_spare_q = <<>>)
          /\ IF g.f # NoFlow
             THEN /\ flows' = [g.flows EXCEPT ![g.f] = [FlowInit(@, pkt[t]) EXCEPT !.m = t]]
                  /\ flow_hash' = [flow_hash EXCEPT ![key] = <<g.f>> \o @]
                  /\ pc' = [pc EXCEPT ![t] = "locked"]
                  /\ pkt' = pkt
             ELSE /\ flows' = g.flows
                  /\ flow_hash' = flow_hash
                  /\ pc' = [pc EXCEPT ![t] = "held"]
                  /\ pkt' = [pkt EXCEPT ![t] = FlowHandlePacketNoFlow(@)]
    /\ UNCHANGED <<call, phase, cfgvars, flow_prune_idx, now, npackets, ref, mgr>>

\* FlowHandlePacket, lines 271-316, on the flow it got locked
FlowHandlePacket_Update(t) ==
    /\ phase = "running"
    /\ pc[t] = "locked"
    /\ LET fid == LockedBy(t)
           f == FlowHandlePacketFlow(flows[fid], pkt[t])
       IN /\ flows' = [flows EXCEPT ![fid] = f]
          /\ pkt' = [pkt EXCEPT ![t] = FlowHandlePacketPkt(f, fid, @)]
    /\ pc' = [pc EXCEPT ![t] = "held"]
    /\ UNCHANGED <<call, phase, cfgvars, flow_hash, fb_m, flow_spare_q, flow_memuse,
                   flow_flags, flow_prune_idx, now, npackets, ref, mgr, hist>>

\* a write through a pointer to a record that was freed meanwhile: the write
\* lands in the freed block, or the engine crashes
UseAfterFree(f) ==
    /\ ~flows[f].alloc
    /\ phase' = "crash"
    /\ UNCHANGED <<flows, pc, pkt, ref>>

\* FlowIncrUsecnt(p->flow): the pipeline takes a reference on the packet's flow
FlowIncrUsecnt(t) ==
    /\ phase = "running"
    /\ pc[t] = "held" /\ pkt[t].flow # NoFlow /\ ~ref[t]
    /\ \/ /\ flows' = [flows EXCEPT ![pkt[t].flow].use_cnt = @ + 1]
          /\ ref' = [ref EXCEPT ![t] = TRUE]
          /\ UNCHANGED <<phase, pc, pkt>>
       \/ UseAfterFree(pkt[t].flow)
    /\ UNCHANGED <<call, cfgvars, flow_hash, fb_m, flow_spare_q, flow_memuse,
                   flow_flags, flow_prune_idx, now, npackets, mgr, hist>>

\* FlowDecrUsecnt(p->flow): the pipeline gives its reference back when it is
\* done with the packet
FlowDecrUsecnt(t) ==
    /\ phase = "running"
    /\ pc[t] = "held" /\ ref[t]
    /\ \/ /\ flows' = [flows EXCEPT ![pkt[t].flow].use_cnt = @ - 1]
          /\ ref' = [ref EXCEPT ![t] = FALSE]
          /\ pc' = [pc EXCEPT ![t] = "idle"]
          /\ pkt' = [pkt EXCEPT ![t] = NoPacket]
          /\ UNCHANGED phase
       \/ UseAfterFree(pkt[t].flow)
    /\ UNCHANGED <<call, cfgvars, flow_hash, fb_m, flow_spare_q, flow_memuse,
                   flow_flags, flow_prune_idx, now, npackets, mgr, hist>>

\* the pipeline is done with a packet it took no reference for
PacketDone(t) ==
    /\ phase = "running"
    /\ pc[t] = "held" /\ ~ref[t]
    /\ pc' = [pc EXCEPT ![t] = "idle"]
    /\ pkt' = [pkt EXCEPT ![t] = NoPacket]
    /\ UNCHANGED <<call, phase, cfgvars, tablevars, now, npackets, ref, mgr, hist>>

\* a second passes
Tick ==
    /\ phase = "running"
    /\ now < MaxTime
    /\ now' = now + 1
    /\ UNCHANGED <<call, phase, cfgvars, tablevars, threadvars, mgr, hist>>

(***************************************************************************)
(* The flow manager.                                                       *)
(***************************************************************************)
\* the registered state probe applied to the protocol context of a flow:
\* "new", "established" or "closed", as the context holds it
CallGetProtoState(probe, protoctx) == protoctx

\* the phase of a flow for the timeout: what the state probe of its protocol
\* says when one is registered; without one, established once both
\* directions were seen, new before
FlowGetFlowState(f) ==
    IF flow_proto[FlowGetProtoMapping(f.proto)].GetProtoState # NULL
    THEN CallGetProtoState(flow_proto[FlowGetProtoMapping(f.proto)].GetProtoState,
                           f.protoctx)
    ELSE IF FLOW_TO_DST_SEEN \in f.flags /\ FLOW_TO_SRC_SEEN \in f.flags
         THEN "established" ELSE "new"

\* the timeout that applies to a flow: table[proto].(regime, phase); the
\* closed phase has a timeout of its own for TCP only
FlowGetFlowTimeout(f, emerg) ==
    LET slot == FlowGetProtoMapping(f.proto)
        e == flow_proto[slot]
        state == FlowGetFlowState(f)
    IN IF emerg
       THEN CASE state = "new" -> e.emerg_new_timeout
              [] state = "closed" /\ slot = FLOW_PROTO_TCP -> e.emerg_closed_timeout
              [] OTHER -> e.emerg_est_timeout
       ELSE CASE state = "new" -> e.new_timeout
              [] state = "closed" /\ slot = FLOW_PROTO_TCP -> e.closed_timeout
              [] OTHER -> e.est_timeout

\* variant: the references to the flow are not looked at
FlowManagerFlowTimeoutAnyUse(f, emerg, ts) ==
    /\ f.m = NoOwner
    /\ ts - f.lastts_sec >= FlowGetFlowTimeout(f, emerg)

\* the manager may take this flow out of its chain: nobody holds it, its
\* mutex can be taken without waiting, and it timed out
FlowManagerFlowTimeout(f, emerg, ts) ==
    /\ f.use_cnt = 0
    /\ f.m = NoOwner
    /\ ts - f.lastts_sec >= FlowGetFlowTimeout(f, emerg)

\* enough flows were released to leave the emergency mode
EmergencyRecovered(released, cfg) ==
    released * 100 >= cfg.emergency_recovery * cfg.hash_size

\* variant: the emergency mode ends with the batch, whatever it released
FlowManagerClearEmergencyAlways(released, noevict, cfg) == TRUE

\* variant: the emergency mode ends only when enough flows were released
FlowManagerClearEmergencyReleased(released, noevict, cfg) ==
    EmergencyRecovered(released, cfg)

\* the manager leaves the emergency mode: enough flows released, or a whole
\* pass over the table without an eviction
FlowManagerClearEmergency(released, noevict, cfg) ==
    EmergencyRecovered(released, cfg) \/ noevict >= cfg.hash_size

\* the count of buckets scanned in a row without an eviction, in emergency
\* mode; it is compared with hash_size only and stops counting there
FlowManagerNoEvict(n, out, emerg) ==
    IF out = <<>> /\ emerg
    THEN IF n < flow_config.hash_size THEN n + 1 ELSE n
    ELSE 0

\* a pass starts: read the cursor, take a batch of buckets from there and
\* publish the cursor behind the batch
FlowManager_StartPass ==
    /\ phase = "running" /\ flow_config.hash_size > 0
    /\ mgr.pc = "idle"
    /\ mgr' = [mgr EXCEPT !.pc = "scan", !.idx = flow_prune_idx,
                          !.left = flow_config.flow_try_release,
                          !.released = 0, !.noevict = 0]
    /\ flow_prune_idx' = (flow_prune_idx + flow_config.flow_try_release)
                             % flow_config.hash_size
    /\ UNCHANGED <<call, phase, cfgvars, flow_hash, fb_m, flow_spare_q, flows, flow_memuse,
                   flow_flags, now, threadvars, hist>>

\* one bucket of the batch: under the bucket mutex, unlink and collect every
\* flow that timed out
FlowManager_ScanBucket ==
    /\ phase = "running"
    /\ mgr.pc = "scan" /\ mgr.left > 0
    /\ fb_m[mgr.idx] = NoOwner
    /\ LET emerg == FLOW_EMERGENCY \in flow_flags
           Out(f) == FlowManagerFlowTimeout(flows[f], emerg, now)
           Stay(f) == ~Out(f)
           out == SelectSeq(flow_hash[mgr.idx], Out)
       IN /\ flow_hash' = [flow_hash EXCEPT ![mgr.idx] = SelectSeq(@, Stay)]
          /\ mgr' = [mgr EXCEPT !.idx = (@ + 1) % flow_config.hash_size,
                                !.left = @ - 1,
                                !.collected = @ \o out,
                                !.noevict = FlowManagerNoEvict(@, out, emerg)]
          /\ hist' = [hist EXCEPT !.noevict = FlowManagerNoEvict(@, out, emerg)]
    /\ UNCHANGED <<call, phase, cfgvars, fb_m, flow_spare_q, flows, flow_memuse, flow_flags,
                   flow_prune_idx, now, threadvars>>

\* FlowClearMemory(f, proto_map): the cleanup hook, then FLOW_RECYCLE(f)
FlowClearMemory(f, proto_map) == [BlankFlow EXCEPT !.alloc = f.alloc]

\* variant: FLOW_RECYCLE(f) runs before the hook, which gets the cleared field
FlowClearMemoryFreefuncAfterRecycle(f, proto_map) ==
    IF flow_proto[proto_map].Freefunc # NULL
    THEN <<FlowClearMemory(f, proto_map).protoctx>>
    ELSE <<>>

\* FlowClearMemory(f, proto_map), lines 751-753: the arguments of the calls of
\* the slot's cleanup hook, made before FLOW_RECYCLE(f)
FlowClearMemoryFreefunc(f, proto_map) ==
    IF flow_proto[proto_map].Freefunc # NULL
    THEN <<f.protoctx>>
    ELSE <<>>

\* the hook calls of FlowClearMemory() over the flows of q, in order
RECURSIVE FreefuncCalls(_, _)
FreefuncCalls(fl, q) ==
    IF q = <<>>
    THEN <<>>
    ELSE [i \in 1 .. Len(FlowClearMemoryFreefunc(fl[Head(q)],
                                                  FlowGetProtoMapping(fl[Head(q)].proto))) |->
             [flow |-> Head(q),
              protoctx |-> FlowClearMemoryFreefunc(fl[Head(q)],
                               FlowGetProtoMapping(fl[Head(q)].proto))[i]]]
         \o FreefuncCalls(fl, Tail(q))

\* one collected flow: clear it, then push it to the spare queue, or free it
\* when the spare queue is over prealloc
FlowManager_Recycle ==
    /\ phase = "running"
    /\ mgr.pc = "scan" /\ mgr.collected # <<>>
    /\ ~mgr.fq
    /\ LET f == Head(mgr.collected)
           cleared == FlowClearMemory(flows[f], FlowGetProtoMapping(flows[f].proto))
           emerg == FLOW_EMERGENCY \in flow_flags
       IN /\ IF Len(flow_spare_q) > flow_config.prealloc
             THEN /\ flows' = FlowFree([flows EXCEPT ![f] = cleared], f)
                  /\ flow_memuse' = flow_memuse - SizeofFlow
                  /\ flow_spare_q' = flow_spare_q
             ELSE /\ flows' = [flows EXCEPT ![f] = cleared]
                  /\ flow_memuse' = flow_memuse
                  /\ flow_spare_q' = FlowEnqueue(flow_spare_q, f)
          /\ mgr' = [mgr EXCEPT !.collected = Tail(@),
                                !.released = IF emerg THEN @ + 1 ELSE @]
          /\ hist' = [hist EXCEPT !.released = IF hist.exhausted THEN @ + 1 ELSE @,
                                   !.hook = FreefuncCalls(flows, <<f>>)]
    /\ UNCHANGED <<call, phase, cfgvars, flow_hash, fb_m, flow_flags, flow_prune_idx, now,
                   threadvars>>

\* the batch is done. In emergency mode: clear the flag when enough flows
\* were released or a whole pass evicted nothing, scan another batch
\* otherwise. In normal mode the pass ends.
FlowManager_EndBatch ==
    /\ phase = "running"
    /\ mgr.pc = "scan" /\ mgr.left = 0 /\ mgr.collected = <<>>
    /\ IF FLOW_EMERGENCY \in flow_flags
       THEN IF FlowManagerClearEmergency(mgr.released, mgr.noevict, flow_config)
            THEN /\ flow_flags' = flow_flags \ {FLOW_EMERGENCY}
                 /\ mgr' = MgrIdle
                 /\ flow_prune_idx' = flow_prune_idx
                 /\ hist' = [hist EXCEPT !.exhausted = FALSE]
            ELSE /\ flow_flags' = flow_flags
                 /\ mgr' = [mgr EXCEPT !.idx = flow_prune_idx,
                                       !.left = flow_config.flow_try_release]
                 /\ flow_prune_idx' = (flow_prune_idx + flow_config.flow_try_release)
                                          % flow_config.hash_size
                 /\ hist' = hist
       ELSE /\ flow_flags' = flow_flags
            /\ mgr' = MgrIdle
            /\ flow_prune_idx' = flow_prune_idx
            /\ hist' = hist
    /\ UNCHANGED <<call, phase, cfgvars, flow_hash, fb_m, flow_spare_q, flows, flow_memuse,
                   now, threadvars>>

(***************************************************************************)
(* FlowUpdateSpareFlows, run by the manager thread between its passes.     *)
(***************************************************************************)
\* line 117: FlowUpdateSpareFlows takes the mutex of the spare queue
FlowUpdateSpareFlows_Lock ==
    /\ phase = "running"
    /\ mgr.pc = "idle"
    /\ mgr' = [mgr EXCEPT !.pc = "len", !.fq = TRUE]
    /\ UNCHANGED <<call, phase, cfgvars, tablevars, now, threadvars, hist>>

\* variant: over prealloc, the whole queue is to be freed
FlowUpdateSpareFlows_LenFreeAll ==
    /\ phase = "running"
    /\ mgr.pc = "len"
    /\ LET len == Len(flow_spare_q)
       IN mgr' = IF len < flow_config.prealloc
                 THEN [mgr EXCEPT !.pc = "toalloc", !.fq = FALSE,
                                  !.todo = flow_config.prealloc - len]
                 ELSE IF len > flow_config.prealloc
                 THEN [mgr EXCEPT !.pc = "tofree", !.fq = FALSE, !.todo = len]
                 ELSE MgrIdle
    /\ UNCHANGED <<call, phase, cfgvars, tablevars, now, threadvars, hist>>

\* variant: the mutex of the spare queue is kept through the loops
FlowUpdateSpareFlows_LenKeepsLock ==
    /\ phase = "running"
    /\ mgr.pc = "len"
    /\ LET len == Len(flow_spare_q)
       IN mgr' = IF len < flow_config.prealloc
                 THEN [mgr EXCEPT !.pc = "toalloc", !.todo = flow_config.prealloc - len]
                 ELSE IF len > flow_config.prealloc
                 THEN [mgr EXCEPT !.pc = "tofree", !.todo = len - flow_config.prealloc]
                 ELSE MgrIdle
    /\ UNCHANGED <<call, phase, cfgvars, tablevars, now, threadvars, hist>>

\* lines 118-133: read the queue length, release the mutex of the queue,
\* decide
FlowUpdateSpareFlows_Len ==
    /\ phase = "running"
    /\ mgr.pc = "len"
    /\ LET len == Len(flow_spare_q)
       IN mgr' = IF len < flow_config.prealloc
                 THEN [mgr EXCEPT !.pc = "toalloc", !.fq = FALSE,
                                  !.todo = flow_config.prealloc - len]
                 ELSE IF len > flow_config.prealloc
                 THEN [mgr EXCEPT !.pc = "tofree", !.fq = FALSE,
                                  !.todo = len - flow_config.prealloc]
                 ELSE MgrIdle
    /\ UNCHANGED <<call, phase, cfgvars, tablevars, now, threadvars, hist>>

\* lines 125-131: one round of the allocation loop
FlowUpdateSpareFlows_Alloc ==
    /\ phase = "running"
    /\ mgr.pc = "toalloc"
    /\ ~mgr.fq
    /\ LET a == FlowAlloc([flows |-> flows, memuse |-> flow_memuse, flags |-> flow_flags],
                          flow_config.memcap)
       IN /\ flows' = a.flows
          /\ flow_memuse' = a.memuse
          /\ flow_flags' = a.flags
          /\ hist' = HistAlloc(TRUE)
          /\ IF a.f = NoFlow
             THEN /\ mgr' = MgrIdle
                  /\ flow_spare_q' = flow_spare_q
             ELSE /\ mgr' = IF mgr.todo = 1 THEN MgrIdle ELSE [mgr EXCEPT !.todo = @ - 1]
                  /\ flow_spare_q' = FlowEnqueue(flow_spare_q, a.f)
    /\ UNCHANGED <<call, phase, cfgvars, flow_hash, fb_m, flow_prune_idx, now, threadvars>>

\* lines 136-143: one round of the trimming loop
FlowUpdateSpareFlows_Free ==
    /\ phase = "running"
    /\ mgr.pc = "tofree"
    /\ ~mgr.fq
    /\ LET f == FlowDequeueFlow(flow_spare_q)
       IN IF f = NoFlow
          THEN /\ mgr' = MgrIdle
               /\ UNCHANGED <<flows, flow_memuse, flow_spare_q>>
          ELSE /\ flow_spare_q' = FlowDequeueRest(flow_spare_q)
               /\ flows' = FlowFree(flows, f)
               /\ flow_memuse' = flow_memuse - SizeofFlow
               /\ mgr' = IF mgr.todo = 1 THEN MgrIdle ELSE [mgr EXCEPT !.todo = @ - 1]
    /\ UNCHANGED <<call, phase, cfgvars, flow_hash, fb_m, flow_flags, flow_prune_idx, now,
                   threadvars, hist>>

(***************************************************************************)
(* FlowShutdown                                                            *)
(***************************************************************************)
\* the flows of all chains, bucket after bucket
RECURSIVE HashFlows(_, _)
HashFlows(hash, b) ==
    IF b \notin DOMAIN hash THEN <<>> ELSE hash[b] \o HashFlows(hash, b + 1)

RECURSIVE FreeAll(_, _)
FreeAll(fl, q) == IF q = <<>> THEN fl ELSE FreeAll(FlowFree(fl, Head(q)), Tail(q))

\* variant: the bucket array is not subtracted
FlowShutdownMemuseNoBuckets(memuse, nflows, hash_size) ==
    memuse - nflows * SizeofFlow

\* flow_memuse after FlowShutdown() freed nflows flows and, line 488,
\* subtracted the bucket array
FlowShutdownMemuse(memuse, nflows, hash_size) ==
    memuse - nflows * SizeofFlow - hash_size * SizeofFlowBucket

\* FlowShutdown(): called once the packet threads are gone and the manager
\* is joined
FlowShutdown ==
    /\ phase = "running"
    /\ \A t \in Threads : pc[t] = "idle"
    /\ mgr.pc = "idle"
    /\ LET freed == flow_spare_q \o HashFlows(flow_hash, 0)
       IN /\ flows' = FreeAll(flows, freed)
          /\ hist' = [hist EXCEPT !.hook = FreefuncCalls(flows, HashFlows(flow_hash, 0))]
          /\ flow_memuse' = FlowShutdownMemuse(flow_memuse, Len(freed),
                                               flow_config.hash_size)
    /\ flow_spare_q' = <<>>
    /\ flow_hash' = [b \in 0 .. -1 |-> <<>>]
    /\ fb_m' = [b \in 0 .. -1 |-> NoOwner]
    /\ phase' = "shutdown"
    /\ UNCHANGED <<cfgvars, flow_flags, flow_prune_idx, now, threadvars, mgr, call>>

(***************************************************************************)
(* The engine.                                                             *)
(***************************************************************************)
Next ==
    \/ \E r \in {0}, calloc_ok \in BOOLEAN : FlowInitConfig(r, calloc_ok)
    \/ \E t \in Threads, p \in EnginePackets : FlowGetFlowFromHash_Lock(t, p)
    \/ \E t \in Threads : FlowGetFlowFromHash_Hit(t)
    \/ \E t \in Threads : FlowGetFlowFromHash_Miss(t)
    \/ \E t \in Threads : FlowHandlePacket_Update(t)
    \/ \E t \in Threads : FlowIncrUsecnt(t)
    \/ \E t \in Threads : FlowDecrUsecnt(t)
    \/ \E t \in Threads : PacketDone(t)
    \/ Tick
    \/ FlowManager_StartPass
    \/ FlowManager_ScanBucket
    \/ FlowManager_Recycle
    \/ FlowManager_EndBatch
    \/ FlowUpdateSpareFlows_Lock
    \/ FlowUpdateSpareFlows_Len
    \/ FlowUpdateSpareFlows_Alloc
    \/ FlowUpdateSpareFlows_Free
    \/ FlowShutdown

Spec == Init /\ [][Next]_vars

(***************************************************************************)
(* One packet thread fed from an ordered source, with the protocols the    *)
(* engine tells apart.                                                     *)
(***************************************************************************)
\* a TCP conversation in both directions, an ICMP echo and an ICMP error
\* answering it, a GRE conversation in both directions
SeqPackets ==
    { Packet(1, 2, 1, 2, IPPROTO_TCP, FALSE), Packet(2, 1, 2, 1, IPPROTO_TCP, FALSE),
      Packet(1, 2, 0, 0, IPPROTO_ICMP, FALSE), Packet(2, 1, 0, 0, IPPROTO_ICMP, TRUE),
      Packet(1, 2, 0, 0, IPPROTO_GRE, FALSE), Packet(2, 1, 0, 0, IPPROTO_GRE, FALSE) }

NextSeq ==
    \/ \E r \in {RAND_MAX}, calloc_ok \in BOOLEAN : FlowInitConfig(r, calloc_ok)
    \/ \E p \in SeqPackets : FlowGetFlowFromHash_Lock(1, p)
    \/ FlowGetFlowFromHash_Hit(1)
    \/ FlowGetFlowFromHash_Miss(1)
    \/ FlowHandlePacket_Update(1)
    \/ FlowIncrUsecnt(1)
    \/ FlowDecrUsecnt(1)
    \/ PacketDone(1)
    \/ Tick
    \/ FlowManager_StartPass
    \/ FlowManager_ScanBucket
    \/ FlowManager_Recycle
    \/ FlowManager_EndBatch
    \/ FlowUpdateSpareFlows_Lock
    \/ FlowUpdateSpareFlows_Len
    \/ FlowUpdateSpareFlows_Alloc
    \/ FlowUpdateSpareFlows_Free
    \/ FlowShutdown

SpecSeq == Init /\ [][NextSeq]_vars

\* the manager thread is a loop that runs a pass in every round and is never
\* starved: a pass starts again and again, and a step it can take is taken
ManagerFairness ==
    /\ SF_vars(FlowManager_StartPass)
    /\ WF_vars(FlowManager_ScanBucket)
    /\ WF_vars(FlowManager_Recycle)
    /\ WF_vars(FlowManager_EndBatch)
    /\ WF_vars(FlowUpdateSpareFlows_Len)
    /\ WF_vars(FlowUpdateSpareFlows_Alloc)
    /\ WF_vars(FlowUpdateSpareFlows_Free)

SpecSeqLive == Init /\ [][NextSeq]_vars /\ ManagerFairness

(***************************************************************************)
(* FlowGetPacketDirection called on its own.                               *)
(***************************************************************************)
DirAddrs == {1, 2}
DirPorts == {1, 2}
DirProtos ==
    {IPPROTO_TCP, IPPROTO_UDP, IPPROTO_SCTP, IPPROTO_ICMP, IPPROTO_ICMPV6, IPPROTO_GRE}

\* the packet with its source and destination addresses swapped
SwapAddrs(p) == [p EXCEPT !.src = p.dst, !.dst = p.src]

\* a flow and a packet to ask the direction for
DirCalls ==
    { [op |-> "FlowGetPacketDirection",
       f |-> [BlankFlow EXCEPT !.alloc = TRUE, !.src = fs, !.dst = fd,
                               !.sp = fsp, !.dp = fdp, !.proto = proto],
       p |-> Packet(ps, pd, psp, pdp, proto, FALSE),
       ret |-> NULL, ret_swapped |-> NULL] :
      fs \in DirAddrs, fd \in DirAddrs, fsp \in DirPorts, fdp \in DirPorts,
      ps \in DirAddrs, pd \in DirAddrs, psp \in DirPorts, pdp \in DirPorts,
      proto \in DirProtos }

InitDir == InitEngine /\ call \in DirCalls

enginevars == <<phase, cfgvars, tablevars, now, threadvars, mgr, hist>>

\* FlowGetPacketDirection(f, p)
CallFlowGetPacketDirection ==
    /\ call.op = "FlowGetPacketDirection"
    /\ call.ret = NULL
    /\ call' = [call EXCEPT !.ret = <<FlowGetPacketDirection(call.f, call.p)>>]
    /\ UNCHANGED enginevars

\* FlowGetPacketDirection(f, p') for p' the packet with its addresses swapped
CallFlowGetPacketDirectionSwapped ==
    /\ call.op = "FlowGetPacketDirection"
    /\ call.ret # NULL /\ call.ret_swapped = NULL
    /\ call' = [call EXCEPT
                  !.ret_swapped = <<FlowGetPacketDirection(call.f, SwapAddrs(call.p))>>]
    /\ UNCHANGED enginevars

NextDir == CallFlowGetPacketDirection \/ CallFlowGetPacketDirectionSwapped

SpecDir == InitDir /\ [][NextDir]_vars

(***************************************************************************)
(* The configuration store called on its own (conf.c).                     *)
(***************************************************************************)
\* names and values the callers use
ConfKeys == {"flow.memcap", "flow.prealloc"}
ConfVals == {<<"1">>, <<"o", "n">>}

\* what the allocations of a set can do: succeed, calloc() in ConfNodeNew
\* fails, HashTableAdd fails
ConfAllocs == {"ok", "nonode", "noadd"}

\* HashTableRemove(conf_hash, node, ...): the store without the name
HashTableRemove(store, name) == [n \in DOMAIN store \ {name} |-> store[n]]

\* HashTableAdd(conf_hash, node, ...): the store with the node under its name
HashTableAdd(store, node) ==
    [n \in DOMAIN store \cup {node.name} |-> IF n = node.name THEN <<node>> ELSE store[n]]

\* variant: the allow_override of the stored node is not looked at
ConfIsFinalNever(store, name) == FALSE

\* the name is in the store and must not be overridden (lines 147-149, 200-202)
ConfIsFinal(store, name) ==
    /\ HashTableLookup(store, name) # NULL
    /\ Deref(HashTableLookup(store, name)).allow_override = 0

\* the store once the node that was there is taken out (lines 151, 203)
ConfDropOld(store, name) ==
    IF HashTableLookup(store, name) # NULL THEN HashTableRemove(store, name) ELSE store

\* ConfSet, lines 206-222, on the store without the old node
ConfSetAdd(store, name, val, allow_override, alloc) ==
    IF alloc = "nonode" THEN [ret |-> 0, store |-> store, exit |-> FALSE]
    ELSE IF alloc = "noadd" THEN [ret |-> 0, store |-> store, exit |-> TRUE]
    ELSE [ret |-> 1,
          store |-> HashTableAdd(store, ConfNode(name, <<val>>, allow_override, <<>>)),
          exit |-> FALSE]

\* ConfSet(name, val, allow_override): [ret, store, exit]
ConfSet(store, name, val, allow_override, alloc) ==
    IF ConfIsFinal(store, name)
    THEN [ret |-> 0, store |-> store, exit |-> FALSE]
    ELSE ConfSetAdd(ConfDropOld(store, name), name, val, allow_override, alloc)

\* ConfSetNode(node): [ret, store, exit]; the caller allocated the node
ConfSetNode(store, node, alloc) ==
    IF ConfIsFinal(store, node.name)
    THEN [ret |-> 0, store |-> store, exit |-> FALSE]
    ELSE IF alloc = "noadd"
         THEN [ret |-> 0, store |-> ConfDropOld(store, node.name), exit |-> TRUE]
         ELSE [ret |-> 1, store |-> HashTableAdd(ConfDropOld(store, node.name), node),
               exit |-> FALSE]

\* ConfRemove(name): [ret, store]
ConfRemove(store, name) ==
    IF HashTableLookup(store, name) # NULL
    THEN [ret |-> 1, store |-> HashTableRemove(store, name)]
    ELSE [ret |-> 0, store |-> store]

\* history of the store: per name, the value of the first successful set
\* with allow_override = 0 (ever), the value of the last one that no
\* ConfRemove followed (live), and the value of the last successful set of
\* any kind that no ConfRemove followed (last)
ConfHistInit ==
    [ever |-> [n \in ConfKeys |-> NULL], live |-> [n \in ConfKeys |-> NULL],
     last |-> [n \in ConfKeys |-> NULL]]

ConfHistSet(h, name, val, allow_override, ret) ==
    IF ret = 1 /\ allow_override = 0
    THEN [ever |-> [h.ever EXCEPT ![name] = IF @ = NULL THEN <<val>> ELSE @],
          live |-> [h.live EXCEPT ![name] = <<val>>],
          last |-> [h.last EXCEPT ![name] = <<val>>]]
    ELSE IF ret = 1 THEN [h EXCEPT !.last[name] = <<val>>]
    ELSE h

ConfHistRemove(h, name, ret) ==
    IF ret = 1 THEN [h EXCEPT !.live[name] = NULL, !.last[name] = NULL] ELSE h

\* the store after ConfInit(), nothing set yet
InitConf ==
    /\ InitGlobals
    /\ conf_hash = [n \in {} |-> NULL]
    /\ hist = ConfHistInit
    /\ call = NoCall

flowvars == <<flow_config, flow_proto, tablevars, now, threadvars, mgr>>

\* a call changed the store: r is what the function returned
ConfStep(r) ==
    /\ conf_hash' = r.store
    /\ phase' = IF r.exit THEN "exit" ELSE phase
    /\ UNCHANGED flowvars

CallConfSet(name, val, allow_override, alloc) ==
    /\ phase = "uninit"
    /\ ConfStep(ConfSet(conf_hash, name, val, allow_override, alloc))
    /\ call' = [op |-> "ConfSet", name |-> name, val |-> val,
                allow_override |-> allow_override,
                ret |-> ConfSet(conf_hash, name, val, allow_override, alloc).ret]
    /\ hist' = ConfHistSet(hist, name, val, allow_override,
                           ConfSet(conf_hash, name, val, allow_override, alloc).ret)

CallConfSetNode(name, val, allow_override, alloc) ==
    /\ phase = "uninit"
    /\ alloc # "nonode"
    /\ ConfStep(ConfSetNode(conf_hash, ConfNode(name, <<val>>, allow_override, <<>>), alloc))
    /\ call' = [op |-> "ConfSetNode", name |-> name, val |-> val,
                allow_override |-> allow_override,
                ret |-> ConfSetNode(conf_hash,
                                    ConfNode(name, <<val>>, allow_override, <<>>), alloc).ret]
    /\ hist' = ConfHistSet(hist, name, val, allow_override,
                           ConfSetNode(conf_hash,
                                       ConfNode(name, <<val>>, allow_override, <<>>),
                                       alloc).ret)

CallConfRemove(name) ==
    /\ phase = "uninit"
    /\ conf_hash' = ConfRemove(conf_hash, name).store
    /\ call' = [op |-> "ConfRemove", name |-> name, val |-> <<>>, allow_override |-> 1,
                ret |-> ConfRemove(conf_hash, name).ret]
    /\ hist' = ConfHistRemove(hist, name, ConfRemove(conf_hash, name).ret)
    /\ UNCHANGED <<phase, flowvars>>

NextConf ==
    \/ \E name \in ConfKeys, val \in ConfVals, allow_override \in {0, 1},
          alloc \in ConfAllocs : CallConfSet(name, val, allow_override, alloc)
    \/ \E name \in ConfKeys, val \in ConfVals, allow_override \in {0, 1},
          alloc \in ConfAllocs : CallConfSetNode(name, val, allow_override, alloc)
    \/ \E name \in ConfKeys : CallConfRemove(name)

SpecConf == InitConf /\ [][NextConf]_vars

(***************************************************************************)
(* FlowInitConfig and the setters of the timeout table on their own, for   *)
(* the values a configuration can hold.                                    *)
(***************************************************************************)
\* strings a configuration holds for a number, each with the integer it
\* writes (NULL when it writes none)
ConfNumbers ==
    { << <<"1">>, <<1>> >>, << <<"3">>, <<3>> >>, << <<"0">>, <<0>> >>,
      << <<"1", "0", "0">>, <<100>> >>, << <<"1", "0", "1">>, <<101>> >>,
      << <<"2", "5", "5">>, <<255>> >>, << <<"2", "5", "6">>, <<256>> >>,
      << <<"-", "1">>, <<0 - 1>> >>, << <<"4", "2">>, <<42>> >>,
      << <<"2">>, <<2>> >>, << <<"1", "k", "b">>, <<1024>> >>, << <<"x">>, NULL >>, << <<"5", "0", "x">>, NULL >>,
      << <<>>, NULL >> }

\* the integer a string of ConfNumbers writes, or NULL
ConfNumber(s) == (CHOOSE n \in ConfNumbers : n[1] = s)[2]

\* a store with the given values; NULL leaves the key out, flow_timeouts is
\* the flow-timeouts node or NULL
InitStoreVal(n, hash_size, memcap, prealloc, recovery, prune, flow_timeouts) ==
    CASE n = "flow.hash-size" -> hash_size
      [] n = "flow.memcap" -> memcap
      [] n = "flow.prealloc" -> prealloc
      [] n = "flow.emergency-recovery" -> recovery
      [] n = "flow.prune-flows" -> prune
      [] OTHER -> flow_timeouts

InitStore(hash_size, memcap, prealloc, recovery, prune, flow_timeouts) ==
    [n \in {m \in ConfNames :
               InitStoreVal(m, hash_size, memcap, prealloc, recovery, prune,
                            flow_timeouts) # NULL} |->
        IF n = "flow-timeouts" THEN flow_timeouts
        ELSE <<Leaf(n, Deref(InitStoreVal(n, hash_size, memcap, prealloc, recovery,
                                          prune, flow_timeouts)))>>]

\* the protocol nodes and the keys a flow-timeouts tree can hold
TimeoutProtos == {"default", "tcp", "udp", "icmp"}
TimeoutKeys ==
    {"new", "established", "closed", "emergency-new", "emergency-established",
     "emergency-closed"}

\* flow-timeouts with one key under one protocol
TimeoutTree(proto, key, val) ==
    ConfNode("flow-timeouts", NULL, 1, << ConfNode(proto, NULL, 1, <<Leaf(key, val)>>) >>)

\* the flow-timeouts trees: none, one key of one protocol set to 42, one key
\* holding no number, and every protocol with four keys
TimeoutConfs ==
    {NULL, <<ShortTimeouts>>, <<TimeoutTree("tcp", "new", <<"x">>)>>}
        \cup { <<TimeoutTree(proto, key, <<"4", "2">>)>> :
                  proto \in TimeoutProtos, key \in TimeoutKeys }

\* the values each flow.* key is given; NULL leaves the key out
InitVals ==
    [hash_size |-> {NULL, << <<"1">> >>, << <<"0">> >>, << <<"x">> >>},
     memcap |-> {NULL, << <<"3">> >>, << <<"1", "k", "b">> >>, << <<"x">> >>},
     prealloc |-> {NULL, << <<"0">> >>, << <<"1">> >>, << <<"x">> >>},
     recovery |-> {NULL, << <<"1">> >>, << <<"1", "0", "0">> >>, << <<"0">> >>,
                   << <<"1", "0", "1">> >>, << <<"x">> >>, << <<"5", "0", "x">> >>,
                   << <<"-", "1">> >>, << <<>> >>},
     prune |-> {NULL, << <<"1">> >>, << <<"3">> >>, << <<"0">> >>, << <<"2", "5", "5">> >>,
                << <<"2", "5", "6">> >>, << <<"x">> >>, << <<"-", "1">> >>}]

\* the stores FlowInitConfig is run on: the table and memory keys together,
\* the manager keys together, the flow-timeouts trees
InitConfs ==
    { InitStore(h, m, p, NULL, NULL, NULL) :
         h \in InitVals.hash_size, m \in InitVals.memcap, p \in InitVals.prealloc }
    \cup { InitStore(<< <<"1">> >>, << <<"3">> >>, << <<"0">> >>, e, pf, NULL) :
              e \in InitVals.recovery, pf \in InitVals.prune }
    \cup { InitStore(<< <<"1">> >>, << <<"3">> >>, << <<"0">> >>, NULL, NULL, ft) :
              ft \in TimeoutConfs }

\* the stores the setters of the timeout table are called with
ProtoConfs ==
    { InitStore(<< <<"1">> >>, << <<"3">> >>, << <<"0">> >>, NULL, NULL, ft) :
         ft \in {NULL, <<ShortTimeouts>>} }

\* the calls of the setters
ProtoCalls ==
    { [op |-> op, proto |-> proto, a |-> 7, b |-> 8, c |-> 9, fn |-> <<"test">>,
       ret |-> NULL] :
      op \in {"FlowSetProtoFreeFunc", "FlowSetFlowStateFunc", "FlowSetProtoTimeout",
              "FlowSetProtoEmergencyTimeout"},
      proto \in {IPPROTO_TCP, IPPROTO_UDP, IPPROTO_ICMP, IPPROTO_GRE} }

\* whether SCCalloc() of the bucket array is going to succeed
InitHist == { [calloc_ok |-> ok] : ok \in BOOLEAN }

InitInit ==
    /\ InitGlobals
    /\ hist \in InitHist
    /\ \/ conf_hash \in InitConfs /\ call = NoCall
       \/ conf_hash \in ProtoConfs /\ call \in ProtoCalls

\* FlowSetProtoFreeFunc(proto, Free): the table it leaves
FlowSetProtoFreeFunc(tbl, proto, Free) ==
    [tbl EXCEPT ![FlowGetProtoMapping(proto)].Freefunc = Free]

\* variant: the probe goes to the slot of the default protocol
FlowSetFlowStateFuncDefaultSlot(tbl, proto, GetProtoState) ==
    [tbl EXCEPT ![FLOW_PROTO_DEFAULT].GetProtoState = GetProtoState]

\* FlowSetFlowStateFunc(proto, GetProtoState)
FlowSetFlowStateFunc(tbl, proto, GetProtoState) ==
    [tbl EXCEPT ![FlowGetProtoMapping(proto)].GetProtoState = GetProtoState]

\* variant: the timeouts go to the slot of the default protocol
FlowSetProtoTimeoutDefaultSlot(tbl, proto, new_timeout, est_timeout, closed_timeout) ==
    [tbl EXCEPT ![FLOW_PROTO_DEFAULT].new_timeout = new_timeout,
                ![FLOW_PROTO_DEFAULT].est_timeout = est_timeout,
                ![FLOW_PROTO_DEFAULT].closed_timeout = closed_timeout]

\* FlowSetProtoTimeout(proto, new_timeout, est_timeout, closed_timeout)
FlowSetProtoTimeout(tbl, proto, new_timeout, est_timeout, closed_timeout) ==
    [tbl EXCEPT ![FlowGetProtoMapping(proto)].new_timeout = new_timeout,
                ![FlowGetProtoMapping(proto)].est_timeout = est_timeout,
                ![FlowGetProtoMapping(proto)].closed_timeout = closed_timeout]

\* FlowSetProtoEmergencyTimeout(proto, emerg_new_timeout, emerg_est_timeout,
\*                              emerg_closed_timeout)
FlowSetProtoEmergencyTimeout(tbl, proto, emerg_new_timeout, emerg_est_timeout, emerg_closed_timeout) ==
    [tbl EXCEPT ![FlowGetProtoMapping(proto)].emerg_new_timeout = emerg_new_timeout,
                ![FlowGetProtoMapping(proto)].emerg_est_timeout = emerg_est_timeout,
                ![FlowGetProtoMapping(proto)].emerg_closed_timeout = emerg_closed_timeout]

\* the setter the call names, applied to the table
FlowSetProtoCall(tbl, c) ==
    CASE c.op = "FlowSetProtoFreeFunc" -> FlowSetProtoFreeFunc(tbl, c.proto, c.fn)
      [] c.op = "FlowSetFlowStateFunc" -> FlowSetFlowStateFunc(tbl, c.proto, c.fn)
      [] c.op = "FlowSetProtoTimeout" -> FlowSetProtoTimeout(tbl, c.proto, c.a, c.b, c.c)
      [] OTHER -> FlowSetProtoEmergencyTimeout(tbl, c.proto, c.a, c.b, c.c)

\* a setter of the timeout table is called; all four return 1
CallFlowSetProto ==
    /\ call.op \in {"FlowSetProtoFreeFunc", "FlowSetFlowStateFunc", "FlowSetProtoTimeout",
                    "FlowSetProtoEmergencyTimeout"}
    /\ call.ret = NULL
    /\ phase \in {"uninit", "running"}
    /\ flow_proto' = FlowSetProtoCall(flow_proto, call)
    /\ call' = [call EXCEPT !.ret = <<1>>]
    /\ UNCHANGED <<phase, conf_hash, flow_config, tablevars, now, threadvars, mgr, hist>>

NextInit ==
    \/ \E r \in {0, RAND_MAX} : FlowInitConfig(r, hist.calloc_ok)
    \/ CallFlowSetProto

SpecInit == InitInit /\ [][NextInit]_vars

(***************************************************************************)
(* The manager's FlowUpdateSpareFlows with no other thread at the spare    *)
(* queue while it runs.                                                    *)
(***************************************************************************)
\* one bucket, one flow preallocated and room for a second; one bucket, two
\* flows preallocated; one bucket, nothing preallocated and room for two
SpareConfs ==
    { FlowConf(<<"1">>, <<"5">>, <<"1">>, <<"1", "0", "0">>, <<"1">>),
      FlowConf(<<"1">>, <<"5">>, <<"2">>, <<"1", "0", "0">>, <<"1">>),
      FlowConf(<<"1">>, <<"5">>, <<"0">>, <<"1", "0", "0">>, <<"1">>) }

InitSpare ==
    /\ InitGlobals
    /\ conf_hash \in SpareConfs
    /\ hist = HistInit
    /\ call = NoCall

\* the manager is inside FlowUpdateSpareFlows
InSpareUpdate == mgr.pc \in {"len", "toalloc", "tofree"}

\* the packet thread takes no flow from the spare queue while the manager is
\* inside FlowUpdateSpareFlows
NextSpare ==
    \/ \E r \in {0}, calloc_ok \in BOOLEAN : FlowInitConfig(r, calloc_ok)
    \/ \E p \in EnginePackets : FlowGetFlowFromHash_Lock(1, p)
    \/ FlowGetFlowFromHash_Hit(1)
    \/ ~InSpareUpdate /\ FlowGetFlowFromHash_Miss(1)
    \/ FlowHandlePacket_Update(1)
    \/ PacketDone(1)
    \/ Tick
    \/ FlowManager_StartPass
    \/ FlowManager_ScanBucket
    \/ FlowManager_Recycle
    \/ FlowManager_EndBatch
    \/ FlowUpdateSpareFlows_Lock
    \/ FlowUpdateSpareFlows_Len
    \/ FlowUpdateSpareFlows_Alloc
    \/ FlowUpdateSpareFlows_Free

SpecSpare == InitSpare /\ [][NextSpare]_vars

(***************************************************************************)
(* The manager's choice of the timeout of a flow, on its own, with a state *)
(* probe registered or not.                                                *)
(***************************************************************************)
\* flow-timeouts with a different number under every key of every protocol
DistinctTimeouts ==
    LET Node(proto, d) ==
            ConfNode(proto, NULL, 1,
                     << Leaf("new", <<d, "1">>), Leaf("established", <<d, "2">>),
                        Leaf("closed", <<d, "3">>), Leaf("emergency-new", <<d, "4">>),
                        Leaf("emergency-established", <<d, "5">>),
                        Leaf("emergency-closed", <<d, "6">>) >>)
    IN ConfNode("flow-timeouts", NULL, 1,
                << Node("default", "1"), Node("tcp", "2"), Node("udp", "3"),
                   Node("icmp", "4") >>)

\* a flow whose timeout the manager looks up, after FlowSetFlowStateFunc was
\* called for a protocol or without any probe
TimeoutCalls ==
    { [op |-> op, proto |-> reg, fn |-> <<"test">>, ret |-> NULL,
       f |-> [BlankFlow EXCEPT !.alloc = TRUE, !.proto = proto, !.flags = seen,
                               !.protoctx = ctx],
       timeout |-> NULL] :
      op \in {"FlowSetFlowStateFunc", "FlowGetFlowTimeout"},
      reg \in {IPPROTO_TCP, IPPROTO_UDP, IPPROTO_GRE},
      proto \in {IPPROTO_TCP, IPPROTO_UDP, IPPROTO_ICMP, IPPROTO_GRE},
      seen \in {{}, {FLOW_TO_DST_SEEN}, {FLOW_TO_DST_SEEN, FLOW_TO_SRC_SEEN}},
      ctx \in {"new", "established", "closed"} }

\* one bucket under a cap that leaves no room for a flow
InitTimeout ==
    /\ InitGlobals
    /\ hist = HistInit
    /\ conf_hash = InitStore(<< <<"1">> >>, << <<"1">> >>, << <<"0">> >>, NULL, NULL,
                             <<DistinctTimeouts>>)
    /\ call \in TimeoutCalls

\* the manager looks up the timeout of the flow, with the EMERGENCY flag as
\* it is now
CallFlowGetFlowTimeout ==
    /\ phase = "running"
    /\ call.timeout = NULL
    /\ call.op = "FlowSetFlowStateFunc" => call.ret # NULL
    /\ call' = [call EXCEPT
                  !.timeout = <<FlowGetFlowTimeout(call.f, FLOW_EMERGENCY \in flow_flags)>>]
    /\ UNCHANGED enginevars

\* FlowInitConfig, the registration of the probe, a packet that finds the
\* memcap reached and raises EMERGENCY, the lookup of the timeout
NextTimeout ==
    \/ \E r \in {0}, calloc_ok \in BOOLEAN : FlowInitConfig(r, calloc_ok)
    \/ phase = "running" /\ CallFlowSetProto
    \/ FlowGetFlowFromHash_Lock(1, Packet(1, 2, 1, 2, IPPROTO_TCP, FALSE))
    \/ FlowGetFlowFromHash_Miss(1)
    \/ PacketDone(1)
    \/ CallFlowGetFlowTimeout

SpecTimeout == InitTimeout /\ [][NextTimeout]_vars

(***************************************************************************)
(* Properties.                                                             *)
(***************************************************************************)
\* two flow records carry the key of one conversation, in either direction
SameConversation(f, g) ==
    /\ f.proto = g.proto
    /\ \/ f.src = g.src /\ f.dst = g.dst /\ f.sp = g.sp /\ f.dp = g.dp
       \/ f.src = g.dst /\ f.dst = g.src /\ f.sp = g.dp /\ f.dp = g.sp

\* the packet of the opposite direction
Reverse(p) == [p EXCEPT !.src = p.dst, !.dst = p.src, !.sp = p.dp, !.dp = p.sp]

\* the flows of all chains, as one sequence
ChainFlows == HashFlows(flow_hash, 0)

\* C1: while the engine runs, no flow record is linked twice, no two linked
\* flows carry the key of one conversation, every linked flow sits in the
\* bucket both directions of its key hash to, and a packet and the packet of
\* the opposite direction look up the same record.
C1_OneFlowPerConversation ==
    phase = "running" =>
        /\ \A i, j \in 1 .. Len(ChainFlows) :
              i # j => /\ ChainFlows[i] # ChainFlows[j]
                       /\ ~SameConversation(flows[ChainFlows[i]], flows[ChainFlows[j]])
        /\ \A b \in DOMAIN flow_hash : \A i \in 1 .. Len(flow_hash[b]) :
              /\ FlowGetKey(flows[flow_hash[b][i]], flow_config) = b
              /\ FlowGetKey(Reverse(flows[flow_hash[b][i]]), flow_config) = b
        /\ \A p \in EnginePackets :
              FlowLookup(flow_hash[FlowGetKey(p, flow_config)], flows, p)
                  = FlowLookup(flow_hash[FlowGetKey(Reverse(p), flow_config)], flows,
                               Reverse(p))

\* two threads hold packets of the two directions of one conversation, both
\* attached to the one linked flow
C1_Witness ==
    \E t, u \in Threads :
        /\ pc[t] = "held" /\ pc[u] = "held"
        /\ pkt[t].proto = IPPROTO_TCP /\ pkt[u].proto = IPPROTO_TCP
        /\ pkt[t].src = pkt[u].dst /\ pkt[t].src # pkt[u].src
        /\ pkt[t].flow # NoFlow /\ pkt[t].flow = pkt[u].flow
        /\ \E i \in 1 .. Len(ChainFlows) : ChainFlows[i] = pkt[t].flow

\* C2: while the engine runs, flow_memuse is at most the configured memcap.
C2_MemuseWithinMemcap ==
    phase = "running" => flow_memuse <= flow_config.memcap

\* a step frees, clears or recycles an allocated record
Released(f) ==
    /\ flows[f].alloc
    /\ \/ ~flows'[f].alloc
       \/ flows[f].proto # 0 /\ flows'[f].proto = 0

\* C3: no step frees, clears or recycles a flow record whose use_cnt is
\* greater than 0.
C3_InUseNeverReleased ==
    [][\A f \in FlowIds : flows[f].use_cnt > 0 => ~Released(f)]_vars

\* thread t returns from a lookup that missed while the spare queue is empty
\* and one more flow does not fit under the memcap
MissExhausted(t) ==
    /\ pc[t] = "bucket" /\ pc'[t] # "bucket"
    /\ FlowLookup(flow_hash[FlowGetKey(pkt[t], flow_config)], flows, pkt[t]) = NoFlow
    /\ flow_spare_q = <<>>
    /\ flow_memuse + SizeofFlow > flow_config.memcap

\* C4: a lookup that misses with the spare queue empty and the memcap
\* exhausted leaves the EMERGENCY flag set and hands the packet back as it
\* came: no flow attached, PKT_HAS_FLOW not set, no direction or ESTABLISHED
\* mark, and no flow record or chain changed.
C4_NoFlowPacketUnchanged ==
    [][\A t \in Threads :
          MissExhausted(t) =>
              /\ FLOW_EMERGENCY \in flow_flags'
              /\ pc'[t] = "held"
              /\ pkt'[t] = pkt[t]
              /\ pkt'[t].flow = NoFlow
              /\ PKT_HAS_FLOW \notin pkt'[t].flags
              /\ pkt'[t].flowflags = {}
              /\ flows' = flows
              /\ flow_hash' = flow_hash]_vars

\* a thread holds a packet that came back without a flow under an exhausted
\* memcap, the EMERGENCY flag set
C4_Witness ==
    \E t \in Threads :
        /\ pc[t] = "held" /\ pkt[t].proto # 0 /\ pkt[t].flow = NoFlow
        /\ FLOW_EMERGENCY \in flow_flags
        /\ flow_spare_q = <<>>
        /\ flow_memuse + SizeofFlow > flow_config.memcap

\* the step clears the EMERGENCY flag
EmergencyCleared ==
    FLOW_EMERGENCY \in flow_flags /\ FLOW_EMERGENCY \notin flow_flags'

\* at least emergency_recovery percent of hash_size flows were released since
\* the flag was set
ReleasedEnough ==
    hist.released * 100 >= flow_config.emergency_recovery * flow_config.hash_size

\* C5 as the specification states it: the EMERGENCY flag is set exactly when
\* the allocator observed memcap exhaustion since the last recovery, and a
\* step clears it only after emergency_recovery percent of hash_size flows
\* were released since it was set.
C5_ClearedOnlyAfterRelease ==
    [][/\ (FLOW_EMERGENCY \in flow_flags') <=> hist'.exhausted
       /\ EmergencyCleared => ReleasedEnough]_vars

\* C5: the EMERGENCY flag is set exactly when the allocator observed memcap
\* exhaustion since the last recovery, and a step clears it only after
\* emergency_recovery percent of hash_size flows were released since it was
\* set, or after the manager scanned every bucket of the table in a row
\* without evicting a flow.
C5_ClearedAfterReleaseOrSweep ==
    [][/\ (FLOW_EMERGENCY \in flow_flags') <=> hist'.exhausted
       /\ EmergencyCleared =>
              ReleasedEnough \/ hist.noevict >= flow_config.hash_size]_vars

\* the flag was set and is clear again, after enough flows were released
C5_Witness ==
    /\ phase = "running"
    /\ FLOW_EMERGENCY \notin flow_flags
    /\ hist.released > 0
    /\ ReleasedEnough

\* no more packets arrive, nobody holds a flow, and every linked flow is
\* older than its emergency timeout, with the EMERGENCY flag set
EmergencyQuiet ==
    /\ phase = "running"
    /\ FLOW_EMERGENCY \in flow_flags
    /\ npackets = MaxPackets
    /\ \A t \in Threads : pc[t] = "idle"
    /\ \A f \in FlowIds : flows[f].use_cnt = 0
    /\ \A i \in 1 .. Len(ChainFlows) :
          now - flows[ChainFlows[i]].lastts_sec
              >= FlowGetFlowTimeout(flows[ChainFlows[i]], TRUE)

\* the manager scans a bucket
BucketScanned ==
    mgr.pc = "scan" /\ mgr'.pc = "scan" /\ mgr'.left = mgr.left - 1

\* C6: with a manager that keeps running, once the EMERGENCY flag is set, no
\* more packets arrive, nobody holds a flow and every linked flow is older
\* than its emergency timeout, the flag is eventually cleared (unless the
\* engine is shut down first); and every bucket the manager scans meanwhile
\* is left empty, its flows reclaimed.
C6_EmergencyRecovers ==
    /\ EmergencyQuiet ~> (phase # "running" \/ FLOW_EMERGENCY \notin flow_flags)
    /\ [][EmergencyQuiet /\ BucketScanned => flow_hash'[mgr.idx] = <<>>]_vars

\* the emergency is quiet with a flow still linked, the table holding fewer
\* flows than the recovery asks for
C6_Witness ==
    /\ EmergencyQuiet
    /\ ChainFlows # <<>>
    /\ Len(ChainFlows) * 100 < flow_config.emergency_recovery * flow_config.hash_size

\* C7: after FlowShutdown flow_memuse is 0, no flow record is allocated, the
\* spare queue is empty and the bucket array is gone.
C7_ShutdownReleasesAll ==
    phase = "shutdown" =>
        /\ flow_memuse = 0
        /\ \A f \in FlowIds : ~flows[f].alloc
        /\ flow_spare_q = <<>>
        /\ ChainFlows = <<>>
        /\ DOMAIN flow_hash = {}

\* the engine was shut down after it handled every packet and the manager
\* released flows in an emergency
C7_Witness ==
    /\ phase = "shutdown"
    /\ npackets = MaxPackets
    /\ hist.released > 0

\* thread t runs FlowHandlePacket on the flow it got locked
Handled(t) == pc[t] = "locked" /\ pc'[t] = "held"

\* the packet runs from the flow's source to its destination / the other way
Forward(f, p) == p.src = f.src /\ p.dst = f.dst /\ p.sp = f.sp /\ p.dp = f.dp
Backward(f, p) == p.src = f.dst /\ p.dst = f.src /\ p.sp = f.dp /\ p.dp = f.sp

\* the packet carries exactly one of the two direction marks
OneDirectionMark(p) ==
    (FLOW_PKT_TOSERVER \in p.flowflags) # (FLOW_PKT_TOCLIENT \in p.flowflags)

\* the protocols FlowGetPacketDirection compares something for
DirectionProtos ==
    {IPPROTO_TCP, IPPROTO_UDP, IPPROTO_SCTP, IPPROTO_ICMP, IPPROTO_ICMPV6}

\* C8 as the specification states it: a packet that gets a flow gets exactly
\* one direction mark, TO_SERVER when it runs the way of the packet that
\* created the flow and TO_CLIENT when it runs the other way.
C8_ReplyToClient ==
    [][\A t \in Threads :
          Handled(t) =>
              /\ OneDirectionMark(pkt'[t])
              /\ Forward(flows[LockedBy(t)], pkt[t])
                     => FLOW_PKT_TOSERVER \in pkt'[t].flowflags
              /\ Backward(flows[LockedBy(t)], pkt[t]) /\ ~Forward(flows[LockedBy(t)], pkt[t])
                     => FLOW_PKT_TOCLIENT \in pkt'[t].flowflags]_vars

\* C8: a packet that gets a flow gets exactly one direction mark: TO_SERVER
\* when it runs the way of the packet that created the flow; TO_CLIENT when
\* it runs the other way and is TCP, UDP, SCTP, ICMP or ICMPv6; TO_SERVER
\* in both directions for every other protocol.
C8_ReplyToClientByProto ==
    [][\A t \in Threads :
          Handled(t) =>
              /\ OneDirectionMark(pkt'[t])
              /\ Forward(flows[LockedBy(t)], pkt[t])
                     => FLOW_PKT_TOSERVER \in pkt'[t].flowflags
              /\ (/\ Backward(flows[LockedBy(t)], pkt[t])
                  /\ ~Forward(flows[LockedBy(t)], pkt[t])
                  /\ pkt[t].proto \in DirectionProtos)
                     => FLOW_PKT_TOCLIENT \in pkt'[t].flowflags
              /\ pkt[t].proto \notin DirectionProtos
                     => FLOW_PKT_TOSERVER \in pkt'[t].flowflags]_vars

\* a TCP packet of the answering side left marked TO_CLIENT
C8_Witness ==
    \E t \in Threads :
        /\ pc[t] = "held" /\ pkt[t].proto = IPPROTO_TCP /\ pkt[t].flow # NoFlow
        /\ flows[pkt[t].flow].src = pkt[t].dst /\ flows[pkt[t].flow].src # pkt[t].src
        /\ pkt[t].flowflags \cap {FLOW_PKT_TOSERVER, FLOW_PKT_TOCLIENT} = {FLOW_PKT_TOCLIENT}

\* the direction asked for is that of a TCP, UDP or SCTP packet
PortCall ==
    /\ call.op = "FlowGetPacketDirection"
    /\ call.p.proto \in {IPPROTO_TCP, IPPROTO_UDP, IPPROTO_SCTP}

\* the rule for TCP, UDP and SCTP: the source ports when the packet's two
\* ports differ, the source addresses when they are equal
PortRule ==
    call.ret # NULL =>
        /\ Deref(call.ret) \in {TOSERVER, TOCLIENT}
        /\ Deref(call.ret) = TOSERVER <=>
              \/ call.p.sp # call.p.dp /\ call.p.sp = call.f.sp
              \/ call.p.sp = call.p.dp /\ call.p.src = call.f.src

\* both results are there for a packet whose two ports are equal
EqualPortsSwapped ==
    call.ret # NULL /\ call.ret_swapped # NULL /\ call.p.sp = call.p.dp

\* C9 as the specification states it: the rule, and for a packet with equal
\* ports the packet with its addresses swapped gets the other direction.
C9_SwapFlips ==
    PortCall =>
        /\ PortRule
        /\ EqualPortsSwapped => Deref(call.ret) # Deref(call.ret_swapped)

\* C9: the rule, and for a packet with equal ports the packet with its
\* addresses swapped gets the other direction exactly when one of its two
\* addresses, and not the other, is the flow's source address.
C9_SwapFlipsForOneMatch ==
    PortCall =>
        /\ PortRule
        /\ EqualPortsSwapped =>
              (Deref(call.ret) # Deref(call.ret_swapped)
                  <=> ((call.p.src = call.f.src) # (call.p.dst = call.f.src)))

\* a UDP packet with equal ports between two hosts went TO_SERVER, the
\* packet with its addresses swapped TO_CLIENT
C9_Witness ==
    /\ PortCall /\ EqualPortsSwapped
    /\ call.p.proto = IPPROTO_UDP
    /\ call.p.src # call.p.dst
    /\ Deref(call.ret) = TOSERVER /\ Deref(call.ret_swapped) = TOCLIENT

\* the direction asked for is that of a packet that is not TCP, UDP or SCTP,
\* and the result is there
NoPortCall ==
    /\ call.op = "FlowGetPacketDirection"
    /\ call.p.proto \notin {IPPROTO_TCP, IPPROTO_UDP, IPPROTO_SCTP}
    /\ call.ret # NULL

\* the source addresses decide
AddrRule ==
    Deref(call.ret) = IF call.p.src = call.f.src THEN TOSERVER ELSE TOCLIENT

\* C10 as the specification states it: for every protocol other than TCP,
\* UDP and SCTP the source addresses decide.
C10_AddressDecides ==
    NoPortCall => AddrRule

\* C10: for ICMP and ICMPv6 the source addresses decide; for every other
\* protocol that is not TCP, UDP or SCTP the direction is TO_SERVER whatever
\* the addresses are.
C10_AddressDecidesIcmp ==
    NoPortCall =>
        IF call.p.proto \in {IPPROTO_ICMP, IPPROTO_ICMPV6}
        THEN AddrRule
        ELSE Deref(call.ret) = TOSERVER

\* an ICMPv6 packet from another source than the flow's went TO_CLIENT
C10_Witness ==
    /\ NoPortCall
    /\ call.p.proto = IPPROTO_ICMPV6
    /\ call.p.src # call.f.src
    /\ Deref(call.ret) = TOCLIENT
\* the two seen flags
SeenFlags == {FLOW_TO_SRC_SEEN, FLOW_TO_DST_SEEN}

\* the packet is an ICMPv4 error message
IcmpV4Error(p) == p.proto = IPPROTO_ICMP /\ p.icmp_err

\* the seen flag of the direction a handled packet was marked with
SeenOfMark(p) ==
    IF FLOW_PKT_TOSERVER \in p.flowflags THEN FLOW_TO_DST_SEEN ELSE FLOW_TO_SRC_SEEN

\* C11: FlowHandlePacket on an ICMPv4 error message leaves both seen flags of
\* the flow as they were; on every other packet it sets the seen flag of the
\* packet's direction and changes no other flag.
C11_IcmpErrorKeepsSeen ==
    [][\A t \in Threads :
          Handled(t) =>
              IF IcmpV4Error(pkt[t])
              THEN flows'[LockedBy(t)].flags = flows[LockedBy(t)].flags
              ELSE flows'[LockedBy(t)].flags
                       = flows[LockedBy(t)].flags \cup {SeenOfMark(pkt'[t])}]_vars

\* an ICMPv4 error answering an echo left with the echo's flow, which has
\* seen the echo's direction only
C11_Witness ==
    \E t \in Threads :
        /\ pc[t] = "held" /\ IcmpV4Error(pkt[t]) /\ pkt[t].flow # NoFlow
        /\ FLOW_PKT_TOCLIENT \in pkt[t].flowflags
        /\ flows[pkt[t].flow].flags \cap SeenFlags = {FLOW_TO_DST_SEEN}

\* the flow is linked in a chain before and after the step
StaysLinked(f) ==
    /\ \E i \in 1 .. Len(ChainFlows) : ChainFlows[i] = f
    /\ \E b \in DOMAIN flow_hash' : \E i \in 1 .. Len(flow_hash'[b]) : flow_hash'[b][i] = f

\* C12: FlowHandlePacket marks a packet ESTABLISHED exactly when the flow,
\* after this packet's seen-flag update, has both seen flags; a flow that
\* stays linked keeps the seen flags it has, so a packet of a flow that had
\* both flags before is marked ESTABLISHED.
C12_EstablishedIffBothSeen ==
    [][/\ \A t \in Threads :
             Handled(t) =>
                 /\ FLOW_PKT_ESTABLISHED \in pkt'[t].flowflags
                        <=> SeenFlags \subseteq flows'[LockedBy(t)].flags
                 /\ SeenFlags \subseteq flows[LockedBy(t)].flags
                        => FLOW_PKT_ESTABLISHED \in pkt'[t].flowflags
       /\ \A f \in FlowIds :
             StaysLinked(f) => (flows[f].flags \cap SeenFlags) \subseteq flows'[f].flags]_vars

\* a packet left marked ESTABLISHED, its flow having seen both directions
C12_Witness ==
    \E t \in Threads :
        /\ pc[t] = "held" /\ pkt[t].flow # NoFlow
        /\ FLOW_PKT_ESTABLISHED \in pkt[t].flowflags
        /\ SeenFlags \subseteq flows[pkt[t].flow].flags

\* C13 as the specification states it: a packet that leaves FlowHandlePacket
\* with a flow attached has raised that flow's use_cnt by one, and use_cnt is
\* never negative.
C13_AttachIncrementsUsecnt ==
    [][/\ \A t \in Threads :
             Handled(t) =>
                 flows'[LockedBy(t)].use_cnt = flows[LockedBy(t)].use_cnt + 1
       /\ \A f \in FlowIds : flows'[f].use_cnt >= 0]_vars

\* C14: a packet that leaves FlowHandlePacket with a flow attached has set the
\* flow's lastts_sec to its own timestamp, and with one packet thread taking
\* the packets in the order of their timestamps the lastts_sec of a flow that
\* stays linked never decreases.
C14_LasttsFollowsPackets ==
    [][/\ \A t \in Threads :
             Handled(t) => flows'[LockedBy(t)].lastts_sec = pkt[t].ts
       /\ \A f \in FlowIds :
             StaysLinked(f) => flows'[f].lastts_sec >= flows[f].lastts_sec]_vars

\* a second packet of a flow, later than the first, left with the flow's
\* lastts_sec at its own timestamp
C14_Witness ==
    \E t \in Threads :
        /\ pc[t] = "held" /\ pkt[t].flow # NoFlow
        /\ pkt[t].ts > 0
        /\ FLOW_PKT_ESTABLISHED \in pkt[t].flowflags
        /\ flows[pkt[t].flow].lastts_sec = pkt[t].ts
\* the step is a ConfSet or ConfSetNode for the name
ConfSetOf(n) == call'.op \in {"ConfSet", "ConfSetNode"} /\ call'.name = n

\* C15 as the specification states it: once a name was set with
\* allow_override = 0, every later ConfSet or ConfSetNode for it returns 0
\* and leaves the store as it is, and ConfGet returns the value set then.
C15_FinalForEver ==
    [][\A n \in ConfKeys :
          hist.ever[n] # NULL =>
              /\ ConfSetOf(n) => call'.ret = 0 /\ conf_hash' = conf_hash
              /\ ConfGet(conf_hash', n) = [ret |-> 1, vptr |-> hist.ever[n]]]_vars

\* C15: once a name was set with allow_override = 0, and as long as no
\* ConfRemove took it out of the store, every later ConfSet or ConfSetNode
\* for it returns 0 and leaves the store as it is, and ConfGet returns the
\* value set then.
C15_FinalUntilRemoved ==
    [][\A n \in ConfKeys :
          /\ hist.live[n] # NULL =>
                /\ ConfSetOf(n) => call'.ret = 0 /\ conf_hash' = conf_hash
                /\ ConfGet(conf_hash, n) = [ret |-> 1, vptr |-> hist.live[n]]
          /\ hist'.live[n] # NULL =>
                ConfGet(conf_hash', n) = [ret |-> 1, vptr |-> hist'.live[n]]]_vars

\* a set with another value was refused for a name that must not be
\* overridden, and the store still holds the first value
C15_Witness ==
    /\ call.op \in {"ConfSet", "ConfSetNode"}
    /\ call.ret = 0
    /\ hist.live[call.name] # NULL
    /\ <<call.val>> # hist.live[call.name]
    /\ ConfGet(conf_hash, call.name).vptr = hist.live[call.name]

\* the integer the store holds under name, NULL when the name is absent or
\* its value is no integer
ConfiguredNumber(name) ==
    IF name \in DOMAIN conf_hash THEN ConfNumber(Deref(Deref(conf_hash[name]).val))
    ELSE NULL

\* the string the store holds under name, NULL when the name is absent
ConfiguredString(name) ==
    IF name \in DOMAIN conf_hash THEN Deref(conf_hash[name]).val ELSE NULL

\* the memory keys leave room for the bucket array and the preallocation
RoomyConf ==
    /\ ConfiguredString("flow.hash-size") = << <<"1">> >>
    /\ ConfiguredString("flow.memcap") = << <<"3">> >>
    /\ ConfiguredString("flow.prealloc") = << <<"0">> >>

\* C16: after FlowInitConfig, flow_config.emergency_recovery is the integer
\* configured under flow.emergency-recovery when that is an integer in
\* 1..100, and the default 30 when the key is absent, holds no integer or
\* holds one outside 1..100; whatever the key holds, initialisation stops
\* only when the bucket array cannot be allocated.
C16_EmergencyRecoveryInRange ==
    /\ phase = "running" =>
          flow_config.emergency_recovery =
              IF /\ ConfiguredNumber("flow.emergency-recovery") # NULL
                 /\ Deref(ConfiguredNumber("flow.emergency-recovery")) \in 1 .. 100
              THEN Deref(ConfiguredNumber("flow.emergency-recovery"))
              ELSE FLOW_DEFAULT_EMERGENCY_RECOVERY
    /\ phase = "exit" /\ RoomyConf => ~hist.calloc_ok

\* FlowInitConfig has run on flow.emergency-recovery = 101 and left the
\* default
C16_Witness ==
    /\ phase = "running"
    /\ ConfiguredNumber("flow.emergency-recovery") = <<101>>
    /\ flow_config.emergency_recovery = FLOW_DEFAULT_EMERGENCY_RECOVERY

\* the store holds under name a value that writes no number
Unparsable(name) ==
    ConfiguredString(name) # NULL /\ ConfiguredNumber(name) = NULL

\* the string the store holds under flow-timeouts.<proto>.<key>, or NULL
ConfiguredTimeout(proto, key) ==
    IF "flow-timeouts" \notin DOMAIN conf_hash THEN NULL
    ELSE IF ConfNodeLookupChild(Deref(conf_hash["flow-timeouts"]), proto) = NULL THEN NULL
    ELSE ConfNodeLookupChildValue(
             Deref(ConfNodeLookupChild(Deref(conf_hash["flow-timeouts"]), proto)), key)

\* the slot of flow_proto a child of flow-timeouts configures, and the field
\* a key configures
TimeoutSlot(proto) ==
    CASE proto = "tcp" -> FLOW_PROTO_TCP
      [] proto = "udp" -> FLOW_PROTO_UDP
      [] proto = "icmp" -> FLOW_PROTO_ICMP
      [] OTHER -> FLOW_PROTO_DEFAULT

TimeoutField(key) ==
    CASE key = "new" -> "new_timeout"
      [] key = "established" -> "est_timeout"
      [] key = "closed" -> "closed_timeout"
      [] key = "emergency-new" -> "emerg_new_timeout"
      [] key = "emergency-established" -> "emerg_est_timeout"
      [] OTHER -> "emerg_closed_timeout"

\* the number of flows FlowInitConfig is to preallocate
PreallocAsked ==
    IF ConfiguredNumber("flow.prealloc") # NULL
    THEN Deref(ConfiguredNumber("flow.prealloc"))
    ELSE FLOW_DEFAULT_PREALLOC

\* an allocation of FlowInitConfig can have failed: the bucket array, or a
\* preallocated flow
AllocationMayFail == ~hist.calloc_ok \/ PreallocAsked > 0

\* after FlowInitConfig, every key of flow.* but flow.memcap that holds no
\* number has its default in flow_config, and every key of flow-timeouts that
\* holds no number leaves the built-in timeout
DefaultsSubstituted ==
    /\ Unparsable("flow.hash-size") => flow_config.hash_size = FLOW_DEFAULT_HASHSIZE
    /\ Unparsable("flow.prealloc") => flow_config.prealloc = FLOW_DEFAULT_PREALLOC
    /\ Unparsable("flow.emergency-recovery") =>
          flow_config.emergency_recovery = FLOW_DEFAULT_EMERGENCY_RECOVERY
    /\ Unparsable("flow.prune-flows") =>
          flow_config.flow_try_release = FLOW_DEFAULT_FLOW_PRUNE
    /\ \A proto \in TimeoutProtos, key \in TimeoutKeys :
          /\ ConfiguredTimeout(proto, key) # NULL
          /\ ConfNumber(Deref(ConfiguredTimeout(proto, key))) = NULL
          => flow_proto[TimeoutSlot(proto)][TimeoutField(key)]
                = FlowProtoDefaults[TimeoutSlot(proto)][TimeoutField(key)]

C18_TryReleaseIsConfigured ==
    phase = "running" =>
       /\ flow_config.flow_try_release =
             IF ConfiguredNumber("flow.prune-flows") # NULL
             THEN Deref(ConfiguredNumber("flow.prune-flows"))
             ELSE FLOW_DEFAULT_FLOW_PRUNE
       /\ ConfiguredNumber("flow.prune-flows") # NULL
          /\ Deref(ConfiguredNumber("flow.prune-flows")) > 0
          => flow_config.flow_try_release # 0

\* the fields of a slot of flow_proto
FlowProtoFields == DOMAIN FlowProtoZero[FLOW_PROTO_DEFAULT]

\* the store holds some value for the field of the slot of flow_proto
TimeoutConfigured(slot, field) ==
    \E proto \in TimeoutProtos, key \in TimeoutKeys :
       /\ TimeoutSlot(proto) = slot
       /\ TimeoutField(key) = field
       /\ ConfiguredTimeout(proto, key) # NULL

\* the slot a setter called for protocol number proto is to write
SetterSlot(proto) ==
    CASE proto = IPPROTO_TCP -> FLOW_PROTO_TCP
      [] proto = IPPROTO_UDP -> FLOW_PROTO_UDP
      [] proto = IPPROTO_ICMP -> FLOW_PROTO_ICMP
      [] OTHER -> FLOW_PROTO_DEFAULT

\* the fields a setter is to write, with the arguments of call c they take
SetterWrites(c) ==
    CASE c.op = "FlowSetProtoFreeFunc" -> [Freefunc |-> c.fn]
      [] c.op = "FlowSetFlowStateFunc" -> [GetProtoState |-> c.fn]
      [] c.op = "FlowSetProtoTimeout" ->
           [new_timeout |-> c.a, est_timeout |-> c.b, closed_timeout |-> c.c]
      [] OTHER ->
           [emerg_new_timeout |-> c.a, emerg_est_timeout |-> c.b,
            emerg_closed_timeout |-> c.c]

\* a step of FlowInitConfig leaves every field the store does not configure
\* at its built-in value, and tcp.new = 42 in the TCP slot; a step of a
\* setter writes its arguments to its own fields of the slot of its protocol
\* and leaves every other field of every slot as it was
FramedStep ==
    /\ phase = "uninit" /\ phase' = "running" =>
          /\ \A slot \in FlowProtoSlots, field \in FlowProtoFields :
                ~TimeoutConfigured(slot, field) =>
                   flow_proto'[slot][field] = FlowProtoDefaults[slot][field]
          /\ ConfiguredTimeout("tcp", "new") = << <<"4", "2">> >> =>
                flow_proto'[FLOW_PROTO_TCP].new_timeout = 42
    /\ call.op # "none" /\ call.ret = NULL /\ call'.ret # NULL =>
          \A slot \in FlowProtoSlots, field \in FlowProtoFields :
             flow_proto'[slot][field] =
                IF slot = SetterSlot(call.proto) /\ field \in DOMAIN SetterWrites(call)
                THEN SetterWrites(call)[field]
                ELSE flow_proto[slot][field]

\* C19: a write to the protocol timeout table changes only the targeted
\* fields of the targeted slot. Configuring flow-timeouts.tcp.new = 42 makes
\* the TCP new timeout 42 and leaves every other field of every slot at its
\* built-in value; FlowSetProtoFreeFunc, FlowSetFlowStateFunc,
\* FlowSetProtoTimeout and FlowSetProtoEmergencyTimeout for protocol p change
\* only their own fields in the slot p maps to.
C19_TableWritesAreFramed == [][FramedStep]_vars

\* FlowSetProtoTimeout(IPPROTO_TCP, 7, 8, 9) has returned after
\* FlowInitConfig: the TCP slot holds the three timeouts and the default slot
\* its built-in ones
C19_Witness ==
    /\ phase = "running"
    /\ call.op = "FlowSetProtoTimeout"
    /\ call.proto = IPPROTO_TCP
    /\ call.ret = <<1>>
    /\ flow_proto[FLOW_PROTO_TCP].new_timeout = 7
    /\ flow_proto[FLOW_PROTO_DEFAULT].new_timeout = FLOW_DEFAULT_NEW_TIMEOUT

\* the number the store holds under flow-timeouts.<proto>.<key>, NULL when
\* the key is absent or holds no number
ConfiguredTimeoutNumber(proto, key) ==
    IF ConfiguredTimeout(proto, key) = NULL THEN NULL
    ELSE ConfNumber(Deref(ConfiguredTimeout(proto, key)))

\* the keys FlowInitFlowProto reads under a child of flow-timeouts
TimeoutKeysRead(proto) ==
    IF proto \in {"default", "tcp"} THEN TimeoutKeys
    ELSE {"new", "established", "emergency-new", "emergency-established"}

\* C20 as stated: for every proto of default, tcp, udp, icmp and every key
\* of new, established, closed, emergency-new, emergency-established,
\* emergency-closed, a number configured under flow-timeouts.<proto>.<key>
\* is in the field of the protocol's slot after FlowInitFlowProto.
C20_EveryTimeoutKeyIsStored ==
    phase = "running" /\ call.op = "none" =>
       \A proto \in TimeoutProtos, key \in TimeoutKeys :
          ConfiguredTimeoutNumber(proto, key) # NULL =>
             flow_proto[TimeoutSlot(proto)][TimeoutField(key)]
                = Deref(ConfiguredTimeoutNumber(proto, key))

\* C20, amended: the six keys are stored for default and tcp, and new,
\* established, emergency-new, emergency-established for udp and icmp;
\* closed and emergency-closed under udp and icmp are not read and the slot
\* keeps its built-in closed timeouts.
C20_ReadTimeoutKeysAreStored ==
    phase = "running" /\ call.op = "none" =>
       \A proto \in TimeoutProtos, key \in TimeoutKeys :
          ConfiguredTimeoutNumber(proto, key) # NULL =>
             flow_proto[TimeoutSlot(proto)][TimeoutField(key)]
                = IF key \in TimeoutKeysRead(proto)
                  THEN Deref(ConfiguredTimeoutNumber(proto, key))
                  ELSE FlowProtoDefaults[TimeoutSlot(proto)][TimeoutField(key)]

\* FlowInitConfig has run on flow-timeouts.udp.emergency-established = 42
C20_Witness ==
    /\ phase = "running"
    /\ call.op = "none"
    /\ ConfiguredTimeoutNumber("udp", "emergency-established") = <<42>>
    /\ flow_proto[FLOW_PROTO_UDP].emerg_est_timeout = 42

\* the records the allocator has handed out
Allocated(fl) == {f \in FlowIds : fl[f].alloc}

\* a step of the manager inside FlowUpdateSpareFlows
SpareUpdateStep == InSpareUpdate /\ mgr' # mgr

\* the step with which FlowUpdateSpareFlows returns 1: the last allocation
\* succeeded, or the trimming loop ended
SpareUpdateReturnsOne ==
    /\ SpareUpdateStep
    /\ mgr'.pc = "idle"
    /\ mgr.pc = "toalloc" => flow_spare_q' # flow_spare_q

\* C21: with no other thread at the spare queue, FlowUpdateSpareFlows
\* returning 1 leaves exactly prealloc flows in the spare queue, and every
\* step of it changes flow_memuse by the size of a flow times the change of
\* the queue length, with as many records taken from or given back to the
\* allocator.
C21_SpareQueueAtPrealloc ==
    [][/\ SpareUpdateReturnsOne => Len(flow_spare_q') = flow_config.prealloc
       /\ SpareUpdateStep =>
             /\ flow_memuse' - flow_memuse
                   = SizeofFlow * (Len(flow_spare_q') - Len(flow_spare_q))
             /\ Cardinality(Allocated(flows')) - Cardinality(Allocated(flows))
                   = Len(flow_spare_q') - Len(flow_spare_q)]_vars

\* one packet took the preallocated flow and FlowUpdateSpareFlows allocated
\* another one for the spare queue
C21_Witness ==
    /\ phase = "running"
    /\ mgr.pc = "idle"
    /\ npackets = 1
    /\ flow_config.prealloc = 1
    /\ HashFlows(flow_hash, 0) # <<>>
    /\ Len(flow_spare_q) = flow_config.prealloc
    /\ flow_memuse = FlowInitHashMemuse(flow_config.hash_size) + 2 * SizeofFlow

\* C22: FlowInitConfig stops the engine whenever the configured hash size is
\* invalid, 0 in particular, or the bucket array cannot be allocated; it
\* never runs to its end with a flow table of zero buckets.
C22_NoTableWithoutBuckets ==
    phase = "running" =>
       /\ hist.calloc_ok
       /\ flow_config.hash_size > 0
       /\ DOMAIN flow_hash # {}

\* a state probe was registered for the protocol of the flow looked up
ProbeRegistered ==
    /\ call.op = "FlowSetFlowStateFunc"
    /\ call.ret # NULL
    /\ SetterSlot(call.proto) = SetterSlot(call.f.proto)

\* the phase of the flow looked up: the probe's answer when one is
\* registered for its protocol, else by the directions seen
TimeoutPhase ==
    IF ProbeRegistered THEN call.f.protoctx
    ELSE IF {FLOW_TO_DST_SEEN, FLOW_TO_SRC_SEEN} \subseteq call.f.flags
         THEN "established" ELSE "new"

\* the field of the table for a regime and a phase; outside TCP the closed
\* phase goes by the established timeout
TimeoutOf(slot, emergency, state) ==
    CASE state = "new" -> IF emergency THEN "emerg_new_timeout" ELSE "new_timeout"
      [] state = "closed" /\ slot = FLOW_PROTO_TCP ->
           IF emergency THEN "emerg_closed_timeout" ELSE "closed_timeout"
      [] OTHER -> IF emergency THEN "emerg_est_timeout" ELSE "est_timeout"

\* C23: the timeout the manager applies to a flow is table[proto].(regime,
\* phase): the regime is emergency exactly when FLOW_EMERGENCY is set at the
\* check, the phase is the answer of the state probe registered for the
\* protocol, or without one established when both directions were seen and
\* new otherwise, and outside TCP a closed phase takes the established
\* timeout.
C23_TimeoutByRegimeAndPhase ==
    [][call.timeout = NULL /\ call'.timeout # NULL =>
          Deref(call'.timeout) =
             flow_proto[SetterSlot(call.f.proto)]
                       [TimeoutOf(SetterSlot(call.f.proto), FLOW_EMERGENCY \in flow_flags,
                                  TimeoutPhase)]]_vars

\* in emergency mode, with a probe registered for TCP, the timeout of a
\* closed TCP flow that saw one direction was looked up: the emergency closed
\* timeout configured for tcp
C23_Witness ==
    /\ ProbeRegistered
    /\ call.timeout = <<26>>
    /\ call.f.proto = IPPROTO_TCP
    /\ call.f.protoctx = "closed"
    /\ call.f.flags = {FLOW_TO_DST_SEEN}
    /\ FLOW_EMERGENCY \in flow_flags

\* ConfGet and ConfGetNode answer for every name as the history of the sets
\* and removals says: the value of the last successful set that no removal
\* followed, not found for a name with none
StoreFollowsHistory(store, h) ==
    \A n \in ConfKeys :
       IF h.last[n] = NULL
       THEN ConfGet(store, n).ret = 0 /\ ConfGetNode(store, n) = NULL
       ELSE /\ ConfGet(store, n) = [ret |-> 1, vptr |-> h.last[n]]
            /\ ConfGetNode(store, n) # NULL
            /\ Deref(ConfGetNode(store, n)).val = h.last[n]

\* a call the statement is about has returned: ConfSet with
\* allow_override = 1, ConfSetNode, ConfRemove
OverridableCall ==
    /\ phase' = "uninit"
    /\ \/ call'.op = "ConfSet" /\ call'.allow_override = 1
       \/ call'.op \in {"ConfSetNode", "ConfRemove"}

\* C24: through every ConfSet with allow_override = 1, ConfSetNode and
\* ConfRemove, ConfGet and ConfGetNode return for a name the value of the
\* most recent successful set of it that no ConfRemove followed, and not
\* found for a name never set or removed since; ConfRemove returns 1 exactly
\* when the name was present.
C24_GetReturnsLastSet ==
    [][OverridableCall /\ StoreFollowsHistory(conf_hash, hist) =>
          /\ StoreFollowsHistory(conf_hash', hist')
          /\ call'.op = "ConfRemove" =>
                (call'.ret = 1 <=> hist.last[call'.name] # NULL)]_vars

(***************************************************************************)
(* ConfGetBool on its own, for the stores a configuration can be.          *)
(***************************************************************************)
\* tolower() on the letters, every other character as it is
UpperCase == <<"A", "B", "C", "D", "E", "F", "G", "H", "I", "J", "K", "L", "M", "N", "O", "P", "Q", "R", "S", "T", "U", "V", "W", "X", "Y", "Z">>
LowerCase == <<"a", "b", "c", "d", "e", "f", "g", "h", "i", "j", "k", "l", "m", "n", "o", "p", "q", "r", "s", "t", "u", "v", "w", "x", "y", "z">>

tolower(c) ==
    IF \E i \in 1 .. Len(UpperCase) : UpperCase[i] = c
    THEN LowerCase[CHOOSE i \in 1 .. Len(UpperCase) : UpperCase[i] = c]
    ELSE c

\* strcasecmp(s1, s2) == 0
strcasecmpEqual(s1, s2) ==
    /\ Len(s1) = Len(s2)
    /\ \A i \in 1 .. Len(s1) : tolower(s1[i]) = tolower(s2[i])

trues == << <<"1">>, <<"y", "e", "s">>, <<"t", "r", "u", "e">>, <<"o", "n">> >>

\* what strcasecmp() does with a null pointer for a string, which the C
\* standard leaves undefined: the process faults, or the read yields bytes
\* that compare equal or not
StrcasecmpNull == {"fault", "equal", "differs"}

\* ConfGetBool(name, &val): [ret, val, exit]; exit when the process faulted
\* in strcasecmp
ConfGetBool(store, name, undef) ==
    LET g == ConfGet(store, name)
    IN IF g.ret # 1 THEN [ret |-> 0, val |-> 0, exit |-> FALSE]
       ELSE IF g.vptr = NULL
       THEN [ret |-> 1, val |-> IF undef = "equal" THEN 1 ELSE 0, exit |-> undef = "fault"]
       ELSE [ret |-> 1,
             val |-> IF \E i \in 1 .. Len(trues) : strcasecmpEqual(Deref(g.vptr), trues[i])
                     THEN 1 ELSE 0,
             exit |-> FALSE]

\* the values of ConfTestGetBool, an empty string and near misses; NULL is
\* a node that holds no value, as a section such as flow-timeouts
BoolVals ==
    { <<s>> : s \in { <<"1">>, <<"o", "n">>, <<"O", "N">>, <<"y", "e", "s">>, <<"Y", "e", "S">>,
                      <<"t", "r", "u", "e">>, <<"T", "R", "U", "E">>, <<"0">>,
                      <<"s", "o", "m", "e", "t", "h", "i", "n", "g">>, <<"o", "f", "f">>,
                      <<"O", "F", "F">>, <<"f", "a", "l", "s", "e">>, <<"n", "o">>, <<"N", "O">>,
                      <<>>, <<"o", "n", "e">>, <<"1", "1">>, <<"y", "e">> } } \cup {NULL}

BoolKeys == {"flow.memcap", "flow-timeouts"}

\* the stores: each name absent or holding a node
BoolConfs ==
    UNION { { [n \in names |-> <<ConfNode(n, vals[n], 1, <<>>)>>] :
                 vals \in [names -> BoolVals] } : names \in SUBSET BoolKeys }

InitBool ==
    /\ InitGlobals
    /\ conf_hash \in BoolConfs
    /\ hist = ConfHistInit
    /\ call = NoCall

CallConfGetBool(name, undef) ==
    /\ phase = "uninit"
    /\ call' = [op |-> "ConfGetBool", name |-> name,
                ret |-> ConfGetBool(conf_hash, name, undef).ret,
                val |-> ConfGetBool(conf_hash, name, undef).val]
    /\ phase' = IF ConfGetBool(conf_hash, name, undef).exit THEN "exit" ELSE phase
    /\ UNCHANGED <<conf_hash, hist, flowvars>>

NextBool == \E name \in BoolKeys, undef \in StrcasecmpNull : CallConfGetBool(name, undef)

SpecBool == InitBool /\ [][NextBool]_vars

\* the string a name holds is, ignoring case, one of "1", "yes", "true", "on"
StoredTrue(store, name) ==
    /\ ConfGet(store, name).vptr # NULL
    /\ \E s \in { <<"1">>, <<"y", "e", "s">>, <<"t", "r", "u", "e">>, <<"o", "n">> } :
          /\ Len(s) = Len(Deref(ConfGet(store, name).vptr))
          /\ \A i \in 1 .. Len(s) :
                \/ Deref(ConfGet(store, name).vptr)[i] = s[i]
                \/ \E k \in 1 .. Len(UpperCase) :
                      s[i] = LowerCase[k] /\ Deref(ConfGet(store, name).vptr)[i] = UpperCase[k]

BoolOfStoredString ==
    [][\A name \in BoolKeys :
          /\ call'.op = "ConfGetBool" /\ call'.name = name
          /\ name \in DOMAIN conf_hash => ConfGet(conf_hash, name).vptr # NULL
          => /\ phase' = "uninit"
             /\ call'.ret = (IF name \in DOMAIN conf_hash THEN 1 ELSE 0)
             /\ call'.val = (IF StoredTrue(conf_hash, name) THEN 1 ELSE 0)]_vars

\* how often a record is in a list of records
Occurrences(q, f) == Cardinality({i \in 1 .. Len(q) : q[i] = f})

\* how often a record is in the bucket chains, in the spare queue and in the
\* list of the flows the manager unlinked and has not yet recycled or freed
Places(f) ==
    Occurrences(HashFlows(flow_hash, 0), f) + Occurrences(flow_spare_q, f)
        + Occurrences(mgr.collected, f)

\* every allocated record is in one place, a freed one in none
FlowsPartitioned ==
    \A f \in FlowIds : Places(f) = (IF flows[f].alloc THEN 1 ELSE 0)

\* C26: every allocated flow record is in exactly one of a bucket chain, the
\* spare queue and the hands of the one thread that unlinked or dequeued it;
\* none is in two chains or in a chain and the spare queue, and none is
\* reachable after it was freed, from the table or from a packet.
C26_OnePlacePerFlow ==
    /\ FlowsPartitioned
    /\ \A f \in FlowIds :
          ~flows[f].alloc => \A t \in Threads : pkt[t].flow # f

\* C27: every flow record in the spare queue has use_cnt = 0, however it
\* got there: preallocated by FlowInitConfig, allocated by
\* FlowUpdateSpareFlows or recycled by the manager after its eviction.
C27_SpareFlowsUnused ==
    \A i \in 1 .. Len(flow_spare_q) : flows[flow_spare_q[i]].use_cnt = 0

\* the manager scanned the bucket b in this step
ScannedBucket(b) == BucketScanned /\ mgr.idx = b

\* the flow is in the chain of the bucket
InChain(hash, b, f) == \E i \in 1 .. Len(hash[b]) : hash[b][i] = f

\* the timeout that applies to a flow now
ApplicableTimeout(f) ==
    flow_proto[FlowGetProtoMapping(flows[f].proto)][
        TimeoutOf(FlowGetProtoMapping(flows[f].proto), FLOW_EMERGENCY \in flow_flags,
                  IF FLOW_TO_DST_SEEN \in flows[f].flags /\ FLOW_TO_SRC_SEEN \in flows[f].flags
                  THEN "established" ELSE "new")]

\* C28: the manager unlinks a flow from its chain only when, at its check
\* under the bucket mutex, use_cnt = 0 and now - lastts_sec has reached the
\* timeout that applies; a flow that fails either condition stays in its
\* chain as it is, and nothing but a scan of the manager or FlowShutdown
\* takes a flow out of a chain.
C28_UnlinkOnlyIdleAndTimedOut ==
    [][\A b \in DOMAIN flow_hash, f \in FlowIds :
          InChain(flow_hash, b, f) =>
             /\ phase' = "running" /\ ~InChain(flow_hash', b, f) =>
                   /\ ScannedBucket(b)
                   /\ fb_m[b] = NoOwner
                   /\ flows[f].use_cnt = 0
                   /\ now - flows[f].lastts_sec >= ApplicableTimeout(f)
                   /\ Occurrences(mgr'.collected, f) = 1
             /\ ScannedBucket(b)
                   /\ (flows[f].use_cnt # 0 \/ now - flows[f].lastts_sec < ApplicableTimeout(f))
                => InChain(flow_hash', b, f) /\ flows'[f] = flows[f]]_vars

\* the manager unlinked a flow that timed out and left in a chain a flow
\* that is as old but has a reference
C28_Witness ==
    /\ phase = "running"
    /\ mgr.collected # <<>>
    /\ \E b \in DOMAIN flow_hash, f \in FlowIds :
          /\ InChain(flow_hash, b, f)
          /\ flows[f].use_cnt > 0
          /\ now - flows[f].lastts_sec >= ApplicableTimeout(f)

\* the bucket mutexes a thread holds
HeldBuckets(m, t) == {b \in DOMAIN m : m[b] = t}

\* the thread acquires the mutex of a flow that is in a chain
LocksFoundFlow(t, f) ==
    /\ flows[f].m # t /\ flows'[f].m = t
    /\ \E b \in DOMAIN flow_hash : InChain(flow_hash, b, f)

ManagerThread == Cardinality(Threads) + 1

\* the threads a thread waits for: the holder of the mutex it is blocked on.
\* A packet thread inside the lookup holds its bucket and waits for the
\* mutex of the flow it found, or for the mutex of the spare queue to get a
\* record; the manager waits for the bucket it is about to scan, and for the
\* spare queue where it enqueues or dequeues
WaitsFor(t) ==
    IF t \in Threads
    THEN IF phase = "running" /\ pc[t] = "bucket"
         THEN IF FlowLookup(flow_hash[FlowGetKey(pkt[t], flow_config)], flows, pkt[t]) # NoFlow
              THEN {flows[FlowLookup(flow_hash[FlowGetKey(pkt[t], flow_config)],
                                     flows, pkt[t])].m} \ {NoOwner}
              ELSE IF mgr.fq THEN {ManagerThread} ELSE {}
         ELSE {}
    ELSE IF phase = "running" /\ mgr.pc = "scan" /\ mgr.collected = <<>> /\ mgr.left > 0
         THEN {fb_m[mgr.idx]} \ {NoOwner}
         ELSE IF phase = "running" /\ mgr.fq /\ mgr.pc # "len"
         THEN {ManagerThread}
         ELSE {}

\* no set of threads in which every thread waits for a thread of the set
NoDeadlock ==
    \A S \in SUBSET (Threads \cup {ManagerThread}) :
        S # {} => \E t \in S : WaitsFor(t) = {} \/ ~(WaitsFor(t) \subseteq S)

\* while the mutex of the spare queue is held, between FQLOCK and FQUNLOCK
\* of FlowUpdateSpareFlows, no flow is allocated or freed, and the step of
\* the holder releases it and takes no other mutex
SpareQueueMutexIsLeaf ==
    mgr.fq =>
       /\ mgr.pc = "len"
       /\ Allocated(flows') = Allocated(flows)
       /\ mgr' # mgr => ~mgr'.fq /\ fb_m' = fb_m /\ flows' = flows

\* C30: with the packet threads in FlowHandlePacket and the manager evicting
\* and running FlowUpdateSpareFlows at the same time, no reachable state has
\* a cycle of threads each blocked on a mutex of the spare queue, a flow or
\* a bucket that another holds, and the mutex of the spare queue is a leaf:
\* never held while another mutex is acquired or a flow allocated or freed.
C30_NoDeadlockQueueLeaf ==
    [][NoDeadlock /\ NoDeadlock' /\ SpareQueueMutexIsLeaf]_vars

\* a packet thread holds a bucket and waits for the spare queue, whose mutex
\* the manager holds inside FlowUpdateSpareFlows, while the other packet
\* thread holds the mutex of a flow
C30_Witness ==
    \E t \in Threads, u \in Threads :
        /\ WaitsFor(t) = {ManagerThread}
        /\ pc[u] = "locked"
        /\ WaitsFor(ManagerThread) = {}

(***************************************************************************)
(* The packet threads, the manager and the pipeline's FlowSetIPOnlyFlag on *)
(* the flows of the packets it holds.                                      *)
(***************************************************************************)
\* FlowSetIPOnlyFlagNoLock(f, direction): the flag of the direction
FlowSetIPOnlyFlagNoLock(f, direction) ==
    [f EXCEPT !.flags = @ \cup {IF direction # 0 THEN FLOW_TOSERVER_IPONLY_SET
                                ELSE FLOW_TOCLIENT_IPONLY_SET}]

\* FlowSetIPOnlyFlag(f, direction): the same assignment between
\* SCMutexLock(&f->m) and SCMutexUnlock(&f->m)
FlowSetIPOnlyFlag(f, direction) == FlowSetIPOnlyFlagNoLock(f, direction)

\* variant: the pipeline sets the flag without the mutex of the flow
CallFlowSetIPOnlyFlagNoLock(t, direction) ==
    /\ phase = "running"
    /\ pc[t] = "held" /\ pkt[t].flow # NoFlow
    /\ \/ /\ flows' = [flows EXCEPT ![pkt[t].flow] = FlowSetIPOnlyFlagNoLock(@, direction)]
          /\ UNCHANGED <<phase, pc, pkt, ref>>
       \/ UseAfterFree(pkt[t].flow)
    /\ UNCHANGED <<call, cfgvars, flow_hash, fb_m, flow_spare_q, flow_memuse,
                   flow_flags, flow_prune_idx, now, npackets, mgr, hist>>

\* the pipeline calls FlowSetIPOnlyFlag(p->flow, direction): it waits for the
\* mutex of the flow, sets the flag and releases the mutex
CallFlowSetIPOnlyFlag(t, direction) ==
    /\ phase = "running"
    /\ pc[t] = "held" /\ pkt[t].flow # NoFlow
    /\ \/ /\ flows[pkt[t].flow].m = NoOwner
          /\ flows' = [flows EXCEPT ![pkt[t].flow] = FlowSetIPOnlyFlag(@, direction)]
          /\ UNCHANGED <<phase, pc, pkt, ref>>
       \/ UseAfterFree(pkt[t].flow)
    /\ UNCHANGED <<call, cfgvars, flow_hash, fb_m, flow_spare_q, flow_memuse,
                   flow_flags, flow_prune_idx, now, npackets, mgr, hist>>

\* one bucket with room for every flow, nothing preallocated
FlagConfs == { FlowConf(<<"1">>, <<"7">>, <<"0">>, <<"1", "0", "0">>, <<"1">>) }

InitFlags ==
    /\ InitGlobals
    /\ conf_hash \in FlagConfs
    /\ hist = HistInit
    /\ call = NoCall

NextFlags ==
    \/ \E r \in {0}, calloc_ok \in BOOLEAN : FlowInitConfig(r, calloc_ok)
    \/ \E t \in Threads, p \in EnginePackets : FlowGetFlowFromHash_Lock(t, p)
    \/ \E t \in Threads : FlowGetFlowFromHash_Hit(t)
    \/ \E t \in Threads : FlowGetFlowFromHash_Miss(t)
    \/ \E t \in Threads : FlowHandlePacket_Update(t)
    \/ \E t \in Threads, direction \in {0, 1} : CallFlowSetIPOnlyFlag(t, direction)
    \/ \E t \in Threads : PacketDone(t)
    \/ Tick
    \/ FlowManager_StartPass
    \/ FlowManager_ScanBucket
    \/ FlowManager_Recycle
    \/ FlowManager_EndBatch

SpecFlags == InitFlags /\ [][NextFlags]_vars

\* the flows whose mutex a thread holds
HeldFlows(fl, t) == {f \in FlowIds : fl[f].m = t}

\* lastts_sec or the flags of the flow change in the step
FlowMutated(f) ==
    flows'[f].lastts_sec # flows[f].lastts_sec \/ flows'[f].flags # flows[f].flags

\* the step is FlowHandlePacket's critical section on the flow: the thread
\* got the flow locked from the lookup and releases the mutex
HandlePacketSection(t, f) ==
    /\ pc[t] = "locked" /\ flows[f].m = t
    /\ pc'[t] = "held" /\ flows'[f].m = NoOwner

\* the step is a FlowSetIPOnlyFlag of the pipeline, which took the mutex
\* when nobody held it
IPOnlySection(t, f) ==
    /\ pc[t] = "held" /\ pkt[t].flow = f
    /\ flows[f].m = NoOwner /\ flows'[f].m = NoOwner

\* C31: the writes to lastts_sec and the flags of a linked flow exclude each
\* other across threads: FlowHandlePacket writes the flow while it holds the
\* mutex the lookup returned it locked with, holds the mutex of that flow
\* only, has released it when it returns, and no other thread writes the
\* flow while a thread is inside that section.
C31_FlowWritesUnderMutex ==
    [][/\ \A t \in Threads :
             Cardinality(HeldFlows(flows', t)) = (IF pc'[t] = "locked" THEN 1 ELSE 0)
       /\ \A f \in FlowIds :
             StaysLinked(f) /\ FlowMutated(f) =>
                \E t \in Threads : HandlePacketSection(t, f) \/ IPOnlySection(t, f)]_vars

\* a thread is inside FlowHandlePacket with a flow locked that carries an
\* IP-only flag, and the other thread holds the bucket and waits for the
\* mutex of that flow
C31_Witness ==
    \E t \in Threads, u \in Threads :
        /\ pc[t] = "locked" /\ pc[u] = "bucket"
        /\ FLOW_TOSERVER_IPONLY_SET \in flows[LockedBy(t)].flags
        /\ WaitsFor(u) = {t}

(***************************************************************************)
(* The manager's passes over the table for the batch sizes a               *)
(* configuration can give, with one packet thread.                         *)
(***************************************************************************)
\* three buckets in batches of two, two buckets in batches of one, one
\* bucket in batches of three, and two buckets with flow.prune-flows at 256
\* and at 0
PruneConfs ==
    { FlowConf(<<"3">>, <<"7">>, <<"0">>, <<"1", "0", "0">>, <<"2">>),
      FlowConf(<<"2">>, <<"7">>, <<"0">>, <<"1", "0", "0">>, <<"1">>),
      FlowConf(<<"1">>, <<"7">>, <<"0">>, <<"1", "0", "0">>, <<"3">>),
      FlowConf(<<"2">>, <<"7">>, <<"0">>, <<"1", "0", "0">>, <<"2", "5", "6">>),
      FlowConf(<<"2">>, <<"7">>, <<"0">>, <<"1", "0", "0">>, <<"0">>) }

InitPrune ==
    /\ InitGlobals
    /\ conf_hash \in PruneConfs
    /\ hist = HistInit
    /\ call = NoCall

NextPrune ==
    \/ \E r \in {0}, calloc_ok \in BOOLEAN : FlowInitConfig(r, calloc_ok)
    \/ \E p \in EnginePackets : FlowGetFlowFromHash_Lock(1, p)
    \/ FlowGetFlowFromHash_Hit(1)
    \/ FlowGetFlowFromHash_Miss(1)
    \/ FlowHandlePacket_Update(1)
    \/ PacketDone(1)
    \/ Tick
    \/ FlowManager_StartPass
    \/ FlowManager_ScanBucket
    \/ FlowManager_Recycle
    \/ FlowManager_EndBatch

\* a packet thread that holds a bucket goes on with its lookup
LookupFairness ==
    /\ WF_vars(FlowGetFlowFromHash_Hit(1))
    /\ WF_vars(FlowGetFlowFromHash_Miss(1))

SpecPruneLive == InitPrune /\ [][NextPrune]_vars /\ ManagerFairness /\ LookupFairness

\* the buckets a table of the configurations above can have
PruneBuckets == 0 .. 2

\* the cursor is a bucket of the table
CursorInTable ==
    phase = "running" => flow_prune_idx \in 0 .. flow_config.hash_size - 1

\* inside a batch the manager is at the bucket that many places before the
\* published cursor as it has buckets left to scan, wrapping at hash_size
BatchFromCursor ==
    phase = "running" /\ mgr.pc = "scan" =>
        /\ mgr.idx \in 0 .. flow_config.hash_size - 1
        /\ (mgr.idx + mgr.left) % flow_config.hash_size = flow_prune_idx

\* the bucket is scanned again and again as long as the engine runs
ScannedForEver(b) ==
    \/ []<>(phase # "running" \/ b \notin DOMAIN flow_hash)
    \/ []<><<ScannedBucket(b)>>_vars

\* C32: the prune cursor is always a bucket index in [0, hash_size), every
\* pass of the manager scans the batch of buckets that starts at the cursor
\* and wraps at hash_size, and over the passes every bucket of the table is
\* scanned again and again.
C32_EveryBucketScanned ==
    /\ [](CursorInTable /\ BatchFromCursor)
    /\ \A b \in PruneBuckets : ScannedForEver(b)

\* the same for the tables whose batch holds a bucket at least
EveryBucketScannedInBatches ==
    /\ [](CursorInTable /\ BatchFromCursor)
    /\ \A b \in PruneBuckets :
          ScannedForEver(b) \/ <>(phase = "running" /\ flow_config.flow_try_release = 0)

(***************************************************************************)
(* The manager's FlowUpdateSpareFlows with a packet thread that takes      *)
(* flows from the spare queue at any time.                                 *)
(***************************************************************************)
NextSpareShared ==
    \/ \E r \in {0}, calloc_ok \in BOOLEAN : FlowInitConfig(r, calloc_ok)
    \/ \E p \in EnginePackets : FlowGetFlowFromHash_Lock(1, p)
    \/ FlowGetFlowFromHash_Hit(1)
    \/ FlowGetFlowFromHash_Miss(1)
    \/ FlowHandlePacket_Update(1)
    \/ PacketDone(1)
    \/ Tick
    \/ FlowManager_StartPass
    \/ FlowManager_ScanBucket
    \/ FlowManager_Recycle
    \/ FlowManager_EndBatch
    \/ FlowUpdateSpareFlows_Lock
    \/ FlowUpdateSpareFlows_Len
    \/ FlowUpdateSpareFlows_Alloc
    \/ FlowUpdateSpareFlows_Free

SpecSpareShared == InitSpare /\ [][NextSpareShared]_vars

\* the trimming loop of FlowUpdateSpareFlows frees a flow in this step
SpareFlowFreed ==
    /\ mgr.pc = "tofree"
    /\ Len(flow_spare_q') < Len(flow_spare_q)
    /\ Cardinality(Allocated(flows')) < Cardinality(Allocated(flows))

\* C33: FlowUpdateSpareFlows keeps at least prealloc flows in the spare
\* queue: whatever the packet threads dequeue between its read of the queue
\* length and its trimming loop, it frees a spare flow only when the queue
\* holds more than prealloc flows.
C33_TrimOnlyOverPrealloc ==
    [][SpareFlowFreed => Len(flow_spare_q) > flow_config.prealloc]_vars

(***************************************************************************)
(* Recycling and the cleanup hook: a protocol analyzer registers its hook  *)
(* with FlowSetProtoFreeFunc and attaches contexts to the flows of the     *)
(* packets it is handed; the manager and FlowShutdown recycle the flows.   *)
(***************************************************************************)
\* the analyzer of the pipeline stores its context in p->flow->protoctx,
\* under the mutex of the flow
SetProtoctx(t) ==
    /\ phase = "running"
    /\ pc[t] = "held" /\ pkt[t].flow # NoFlow
    /\ \/ /\ flows[pkt[t].flow].m = NoOwner
          /\ ~flows[pkt[t].flow].protoctx
          /\ flows' = [flows EXCEPT ![pkt[t].flow].protoctx = TRUE]
          /\ UNCHANGED <<phase, pc, pkt, ref>>
       \/ UseAfterFree(pkt[t].flow)
    /\ UNCHANGED <<call, cfgvars, flow_hash, fb_m, flow_spare_q, flow_memuse,
                   flow_flags, flow_prune_idx, now, npackets, mgr, hist>>

\* the hook is registered for TCP, or for a protocol of the default slot
HookCalls ==
    { c \in ProtoCalls : c.op = "FlowSetProtoFreeFunc"
                         /\ c.proto \in {IPPROTO_TCP, IPPROTO_GRE} }

InitHook ==
    /\ InitGlobals
    /\ conf_hash \in FlagConfs
    /\ hist = HistInit
    /\ call \in HookCalls

NextHook ==
    \/ \E r \in {0}, calloc_ok \in BOOLEAN : FlowInitConfig(r, calloc_ok)
    \/ CallFlowSetProto
    \/ \E p \in EnginePackets : FlowGetFlowFromHash_Lock(1, p)
    \/ FlowGetFlowFromHash_Hit(1)
    \/ FlowGetFlowFromHash_Miss(1)
    \/ FlowHandlePacket_Update(1)
    \/ SetProtoctx(1)
    \/ PacketDone(1)
    \/ Tick
    \/ FlowManager_StartPass
    \/ FlowManager_ScanBucket
    \/ FlowManager_Recycle
    \/ FlowManager_EndBatch
    \/ FlowShutdown

SpecHook == InitHook /\ [][NextHook]_vars

\* the cleanup hook registered for the slot the protocol of the flow maps to
HookOf(f) == flow_proto[FlowGetProtoMapping(flows[f].proto)].Freefunc

\* the hook calls the step has to make for flow f: one, with the context
\* the flow has before the step, when a hook is registered for its slot
HookCallsDue(f) ==
    IF HookOf(f) # NULL THEN <<[flow |-> f, protoctx |-> flows[f].protoctx]>> ELSE <<>>

\* after the step every field of the record is clear
ClearedAfter(f) == flows'[f] = [BlankFlow EXCEPT !.alloc = flows'[f].alloc]

\* the entries for flow f among the hook calls
CallsFor(calls, f) == { i \in DOMAIN calls : calls[i].flow = f }

\* C34: recycling order. When the manager recycles an evicted flow, the hook
\* registered for the slot of its protocol (if any) is called exactly once,
\* with the context the flow carried, the fields are clear afterwards, and
\* the cleared record is in the spare queue or freed; FlowShutdown does the
\* same for every flow of the table and frees it; no flow enters the spare
\* queue with a protocol context.
C34_HookThenClearThenQueue ==
    [][/\ (mgr.collected # <<>> /\ mgr'.collected = Tail(mgr.collected)) =>
             /\ hist'.hook = HookCallsDue(Head(mgr.collected))
             /\ ClearedAfter(Head(mgr.collected))
             /\ \/ /\ flow_spare_q' = Append(flow_spare_q, Head(mgr.collected))
                   /\ flows'[Head(mgr.collected)].alloc
                \/ /\ flow_spare_q' = flow_spare_q
                   /\ ~flows'[Head(mgr.collected)].alloc
       /\ (phase = "running" /\ phase' = "shutdown") =>
             /\ \A f \in FlowIds :
                   IF \E b \in DOMAIN flow_hash : InChain(flow_hash, b, f)
                   THEN /\ Len(HookCallsDue(f)) = Cardinality(CallsFor(hist'.hook, f))
                        /\ \A i \in CallsFor(hist'.hook, f) :
                               hist'.hook[i] = HookCallsDue(f)[1]
                   ELSE CallsFor(hist'.hook, f) = {}
             /\ \A f \in FlowIds :
                   flows[f].alloc => ClearedAfter(f) /\ ~flows'[f].alloc
       /\ \A f \in FlowIds :
             Occurrences(flow_spare_q', f) > Occurrences(flow_spare_q, f) =>
                 ~flows'[f].protoctx]_vars

\* a flow that carried a context was recycled: the hook got the context, and
\* the record is in the spare queue without it
C34_Witness ==
    /\ phase = "running"
    /\ Len(hist.hook) = 1
    /\ hist.hook[1].protoctx
    /\ Occurrences(flow_spare_q, hist.hook[1].flow) = 1
    /\ ~flows[hist.hook[1].flow].protoctx

\* both hooks of every slot of the table are unset
HooksUnset(tbl) ==
    \A s \in FlowProtoSlots : tbl[s].Freefunc = NULL /\ tbl[s].GetProtoState = NULL

\* the step is a call of the setter of the hook that differs in slot s
\* between the two tables
HookSetterStep(s) ==
    /\ call.ret = NULL /\ call'.ret # NULL
    /\ s = FlowGetProtoMapping(call.proto)
    /\ flow_proto'[s].Freefunc # flow_proto[s].Freefunc =>
           call.op = "FlowSetProtoFreeFunc" /\ flow_proto'[s].Freefunc = call.fn
    /\ flow_proto'[s].GetProtoState # flow_proto[s].GetProtoState =>
           call.op = "FlowSetFlowStateFunc" /\ flow_proto'[s].GetProtoState = call.fn

\* C35: FlowInitConfig, through FlowInitFlowProto, leaves the cleanup hook and
\* the state probe of all four slots unset, whatever was registered before
\* it; once the engine runs, a hook is in the table only by a call of its
\* setter made after the initialization.
C35_InitUnsetsHooks ==
    [][/\ (phase = "uninit" /\ phase' = "running") => HooksUnset(flow_proto')
       /\ phase = "running" =>
             \A s \in FlowProtoSlots :
                 (\/ flow_proto'[s].Freefunc # flow_proto[s].Freefunc
                  \/ flow_proto'[s].GetProtoState # flow_proto[s].GetProtoState)
                     => HookSetterStep(s)]_vars

\* a hook was registered before FlowInitConfig, and the running engine has
\* none
C35_Witness ==
    /\ phase = "running"
    /\ call.op \in {"FlowSetProtoFreeFunc", "FlowSetFlowStateFunc"}
    /\ call.ret # NULL
    /\ HooksUnset(flow_proto)

====
